---------------------------- MODULE Spec2Model ----------------------------
(***************************************************************************)
(* A model of the Dify manifest extension: the directory classifier        *)
(* (checkDifyDirectory and the workspace-folder handlers of activate), the *)
(* gating of validation by getWorkspaceFolderForUri, the file decoration   *)
(* provider, and the two validation passes of the repository               *)
(* (validateManifest, and the earlier validateYamlDocument).               *)
(*                                                                         *)
(* Paths and texts are sequences of tokens.  A token is a string that the  *)
(* code never looks inside: a path is "/" and name tokens, so that         *)
(* String.startsWith, path.basename and path.dirname are computed on the   *)
(* sequence exactly as the code computes them on the characters.           *)
(***************************************************************************)
EXTENDS Integers, Sequences, FiniteSets, TLC

\* ------------------------------------------------------------------- paths

Sep == "/"

ManifestName == "manifest.yaml"

\* const difyFiles = ['.difyignore', 'manifest.yaml', 'main.py']
difyFiles == <<".difyignore", "manifest.yaml", "main.py">>

\* Two candidate workspace folders; the second one's path has the first
\* one's path as a proper string prefix without lying inside it.
RootP == <<"/", "p">>

RootPQ == <<"/", "p", "q">>

Roots == {RootP, RootPQ}

\* path.join(dir, name) and vscode.Uri.joinPath(uri, name)
joinPath(dir, name) == dir \o <<Sep, name>>

\* String.prototype.startsWith
startsWith(s, prefix) ==
    /\ Len(prefix) <= Len(s)
    /\ SubSeq(s, 1, Len(prefix)) = prefix

\* Index of the last separator of p, 0 when there is none.
lastSep(p) ==
    LET idx == {i \in 1..Len(p) : p[i] = Sep}
    IN IF idx = {} THEN 0 ELSE CHOOSE i \in idx : \A j \in idx : j <= i

\* path.basename
basename(p) == SubSeq(p, lastSep(p) + 1, Len(p))

\* path.dirname (of a path with a parent)
dirname(p) == SubSeq(p, 1, lastSep(p) - 1)

\* Uri.toString() of a file uri: the scheme and the path.
uriString(fsPath) == <<"file://">> \o fsPath

\* The fsPath of a uri string.
fsPathOf(uri) == SubSeq(uri, 2, Len(uri))

\* The documents an editor can hold: the manifest of each root and a file
\* that is no manifest.
DocP == joinPath(RootP, ManifestName)

DocPQ == joinPath(RootPQ, ManifestName)

DocPy == joinPath(RootP, "main.py")

Docs == {DocP, DocPQ, DocPy}

\* The marker files of the first root come and go; those of the second
\* root are always there.
MarkerFiles == {joinPath(RootP, difyFiles[i]) : i \in 1..3}

FixedFiles == {joinPath(RootPQ, difyFiles[i]) : i \in 1..3}


\* ------------------------------------------------------------- YAML values

\* A parsed value: null, a boolean, a number, a string, a mapping (ordered
\* entries [key, val]) or a sequence.
Null == [k |-> "null", s |-> "", n |-> 0, m |-> <<>>]

Str(tok) == [k |-> "string", s |-> tok, n |-> 0, m |-> <<>>]

Num(i) == [k |-> "number", s |-> "", n |-> i, m |-> <<>>]

Bool(tok) == [k |-> "boolean", s |-> tok, n |-> 0, m |-> <<>>]

Obj(entries) == [k |-> "object", s |-> "", n |-> 0, m |-> entries]

Arr(items) == [k |-> "array", s |-> "", n |-> 0, m |-> items]

\* The plain scalars that the YAML core schema resolves to integers.
IntTokens == ("0" :> 0) @@ ("1" :> 1) @@ ("256" :> 256) @@ ("1048576" :> 1048576)

\* Resolution of a scalar token (YAML core schema); the token of two
\* double quotes is the empty string.
Scalar(tok) ==
    IF tok \in {"null", "~"} THEN Null
    ELSE IF tok = "\"\"" THEN Str("")
    ELSE IF tok \in {"true", "false"} THEN Bool(tok)
    ELSE IF tok \in DOMAIN IntTokens THEN Num(IntTokens[tok])
    ELSE Str(tok)

\* JavaScript's !value
falsy(v) ==
    \/ v.k = "null"
    \/ v.k = "number" /\ v.n = 0
    \/ v.k = "boolean" /\ v.s = "false"
    \/ v.k = "string" /\ v.s = ""

\* Keys of a mapping, in order.
keysOf(v) == [i \in 1..Len(v.m) |-> v.m[i].key]

hasKey(v, key) == \E i \in 1..Len(v.m) : v.m[i].key = key

\* value[key] of a mapping that has the key
get(v, key) == v.m[CHOOSE i \in 1..Len(v.m) : v.m[i].key = key].val

\* --------------------------------------------------------------- YAML text

NL == "\n"

SP == " "

\* Tokens that are no plain scalar and no key.
Punct == {NL, SP, ":", "-", "[", "]", "{", "}"}

isWord(tok) == tok \notin Punct

minOf(S) == CHOOSE i \in S : \A j \in S : i <= j

\* text.split('\n')
RECURSIVE splitLines(_)
splitLines(text) ==
    LET nl == {i \in 1..Len(text) : text[i] = NL}
    IN IF nl = {} THEN <<text>>
       ELSE <<SubSeq(text, 1, minOf(nl) - 1)>>
            \o splitLines(SubSeq(text, minOf(nl) + 1, Len(text)))

\* Number of characters of a token sequence.
RECURSIVE charLen(_)
charLen(toks) ==
    IF Len(toks) = 0 THEN 0
    ELSE IF Len(toks) = 1 THEN Len(toks[1])
    ELSE charLen(SubSeq(toks, 1, Len(toks) \div 2))
         + charLen(SubSeq(toks, Len(toks) \div 2 + 1, Len(toks)))

\* Leading spaces of a line, and what follows them.
indentOf(line) ==
    LET non == {i \in 1..Len(line) : line[i] # SP}
    IN IF non = {} THEN Len(line) ELSE minOf(non) - 1

bodyOf(line) == SubSeq(line, indentOf(line) + 1, Len(line))

isKeyScalar(b) == Len(b) = 4 /\ isWord(b[1]) /\ b[2] = ":" /\ b[3] = SP /\ isWord(b[4])

isKeyOnly(b) == Len(b) = 2 /\ isWord(b[1]) /\ b[2] = ":"

isKey(b) == isKeyScalar(b) \/ isKeyOnly(b)

isItem(b) == Len(b) = 3 /\ b[1] = "-" /\ b[2] = SP /\ isWord(b[3])

isPlain(b) == Len(b) = 1 /\ isWord(b[1])

wellFormed(b) == b = <<>> \/ isKey(b) \/ isItem(b) \/ isPlain(b)

\* The lines of a text that are not blank: [n: line number from 1, ind, b].
RECURSIVE keepLines(_, _)
keepLines(lines, n) ==
    IF n > Len(lines) THEN <<>>
    ELSE (IF bodyOf(lines[n]) = <<>> THEN <<>>
          ELSE <<[n |-> n, ind |-> indentOf(lines[n]), b |-> bodyOf(lines[n])]>>)
         \o keepLines(lines, n + 1)

\* Block parsing by indentation: [v, next, err] where err is the line
\* number of a fault (0: none) and next the first line not consumed.
RECURSIVE parseNode(_, _, _)
RECURSIVE parseMap(_, _, _, _)
RECURSIVE parseSeq(_, _, _, _)
parseNode(L, i, ind) ==
    IF isItem(L[i].b) THEN parseSeq(L, i, ind, <<>>)
    ELSE IF isKey(L[i].b) THEN parseMap(L, i, ind, <<>>)
    ELSE [v |-> Scalar(L[i].b[1]), next |-> i + 1, err |-> 0]

parseMap(L, i, ind, acc) ==
    IF i > Len(L) \/ L[i].ind # ind \/ ~isKey(L[i].b)
    THEN [v |-> Obj(acc), next |-> i, err |-> 0]
    ELSE IF \E j \in 1..Len(acc) : acc[j].key = L[i].b[1]
    THEN [v |-> Null, next |-> i, err |-> L[i].n]
    ELSE IF isKeyScalar(L[i].b)
    THEN parseMap(L, i + 1, ind,
                  Append(acc, [key |-> L[i].b[1], val |-> Scalar(L[i].b[4])]))
    ELSE IF /\ i + 1 <= Len(L)
            /\ \/ L[i + 1].ind > ind
               \/ L[i + 1].ind = ind /\ isItem(L[i + 1].b)
    THEN LET r == parseNode(L, i + 1, L[i + 1].ind)
         IN IF r.err # 0 THEN r
            ELSE parseMap(L, r.next, ind,
                          Append(acc, [key |-> L[i].b[1], val |-> r.v]))
    ELSE parseMap(L, i + 1, ind, Append(acc, [key |-> L[i].b[1], val |-> Null]))

parseSeq(L, i, ind, acc) ==
    IF i > Len(L) \/ L[i].ind # ind \/ ~isItem(L[i].b)
    THEN [v |-> Arr(acc), next |-> i, err |-> 0]
    ELSE parseSeq(L, i + 1, ind, Append(acc, Scalar(L[i].b[3])))

\* Offset of the first character of line n (from 1) of the text.
RECURSIVE lineStart(_, _)
lineStart(lines, n) ==
    IF n <= 1 THEN 0 ELSE lineStart(lines, n - 1) + charLen(lines[n - 1]) + 1

\* What yaml.parse throws: a YAMLParseError naming the line and column
\* of the fault, with pos the offsets of the faulty character.
YAMLParseError(lines, n, reason) ==
    LET col == indentOf(lines[n]) + 1
        at == lineStart(lines, n) + indentOf(lines[n])
    IN [ok |-> FALSE, v |-> Null, name |-> "YAMLParseError",
        message |-> reason \o " at line " \o ToString(n)
                    \o ", column " \o ToString(col),
        line |-> n, pos |-> <<at, at + 1>>]

\* yaml.parse(text): the value, or the error it throws.
yamlParse(text) ==
    LET parsed(lines, L, r) ==
            LET bad == {n \in 1..Len(lines) : ~wellFormed(bodyOf(lines[n]))}
            IN IF bad # {}
               THEN YAMLParseError(lines, minOf(bad), "Unexpected token")
               ELSE IF L = <<>>
               THEN [ok |-> TRUE, v |-> Null, name |-> "", message |-> "",
                     line |-> 0, pos |-> <<0, 0>>]
               ELSE IF r.err # 0
               THEN YAMLParseError(lines, r.err, "Map keys must be unique")
               ELSE IF r.next <= Len(L)
               THEN YAMLParseError(lines, L[r.next].n,
                                   "All mapping items must start at the same column")
               ELSE [ok |-> TRUE, v |-> r.v, name |-> "", message |-> "",
                     line |-> 0, pos |-> <<0, 0>>]
        blocks(lines, L) == parsed(lines, L, parseNode(L, 1, L[1].ind))
    IN blocks(splitLines(text), keepLines(splitLines(text), 1))

\* ------------------------------------------------------------- JSON schema

\* A schema of the subset of draft-07 the manifest schema uses.  A keyword
\* that a schema does not have is "", <<>> or -1.
Schema ==
    [type |-> "", enum |-> <<>>, pattern |-> "", format |-> "",
     minimum |-> -1, maximum |-> -1, minItems |-> -1, items |-> <<>>,
     minProperties |-> -1, required |-> <<>>, additionalProperties |-> <<>>,
     properties |-> <<>>]

Typed(t) == [Schema EXCEPT !.type = t]

Prop(name, schema) == [name |-> name, schema |-> schema]

\* { "type": "object", "properties": { "enabled": { "type": "boolean" } } }
EnabledSchema ==
    [Typed("object") EXCEPT !.properties = <<Prop("enabled", Typed("boolean"))>>]

\* { "type": "object", "additionalProperties": { "type": "string" },
\*   "minProperties": 1 }
I18nSchema ==
    [Typed("object") EXCEPT !.additionalProperties = <<Typed("string")>>,
                            !.minProperties = 1]

VersionPattern == "^\\d{1,4}(\\.\\d{1,4}){1,3}(-\\w{1,16})?$"

AuthorPattern == "^[a-zA-Z0-9_-]{1,64}$"

NamePattern == "^[a-z0-9_-]{1,128}$"

ProviderPattern == "^provider/.*\\.yaml$"

StringArray == [Typed("array") EXCEPT !.items = <<Typed("string")>>]

manifestSchema ==
    [Typed("object") EXCEPT
       !.required = <<"version", "type", "author", "name", "label",
                      "description", "icon", "resource", "meta">>,
       !.properties = <<
         Prop("version", [Typed("string") EXCEPT !.pattern = VersionPattern]),
         Prop("type", [Typed("string") EXCEPT !.enum = <<"plugin">>]),
         Prop("author", [Typed("string") EXCEPT !.pattern = AuthorPattern]),
         Prop("name", [Typed("string") EXCEPT !.pattern = NamePattern]),
         Prop("label", I18nSchema),
         Prop("description", I18nSchema),
         Prop("icon", Typed("string")),
         Prop("resource", [Typed("object") EXCEPT
            !.required = <<"memory">>,
            !.properties = <<
              Prop("memory", Typed("integer")),
              Prop("permission", [Typed("object") EXCEPT !.properties = <<
                 Prop("tool", EnabledSchema),
                 Prop("model", [Typed("object") EXCEPT !.properties = <<
                    Prop("enabled", Typed("boolean")),
                    Prop("llm", Typed("boolean")),
                    Prop("text_embedding", Typed("boolean")),
                    Prop("rerank", Typed("boolean")),
                    Prop("tts", Typed("boolean")),
                    Prop("speech2text", Typed("boolean")),
                    Prop("moderation", Typed("boolean"))>>]),
                 Prop("node", EnabledSchema),
                 Prop("endpoint", EnabledSchema),
                 Prop("app", EnabledSchema),
                 Prop("storage", [Typed("object") EXCEPT
                    !.required = <<"size">>,
                    !.properties = <<
                      Prop("enabled", Typed("boolean")),
                      Prop("size", [Typed("integer") EXCEPT
                                      !.minimum = 1024,
                                      !.maximum = 1073741824])>>])>>])>>]),
         Prop("plugins", [Typed("object") EXCEPT !.properties = <<
            Prop("tools", [Typed("array") EXCEPT
               !.items = <<[Typed("string") EXCEPT !.pattern = ProviderPattern]>>]),
            Prop("models", StringArray),
            Prop("endpoints", StringArray),
            Prop("agent_strategies", StringArray)>>]),
         Prop("meta", [Typed("object") EXCEPT
            !.required = <<"version", "arch", "runner">>,
            !.properties = <<
              Prop("version", Typed("string")),
              Prop("arch", [Typed("array") EXCEPT
                 !.items = <<[Typed("string") EXCEPT !.enum = <<"amd64", "arm64">>]>>,
                 !.minItems = 1]),
              Prop("runner", [Typed("object") EXCEPT
                 !.required = <<"language", "version", "entrypoint">>,
                 !.properties = <<
                   Prop("language", [Typed("string") EXCEPT !.enum = <<"python">>]),
                   Prop("version", Typed("string")),
                   Prop("entrypoint", Typed("string"))>>])>>]),
         Prop("created_at", [Typed("string") EXCEPT !.format = "date-time"]),
         Prop("privacy", Typed("string")),
         Prop("verified", Typed("boolean"))>>]

\* The string tokens of the catalogue each pattern or format accepts.
PatternMatches ==
    (VersionPattern :> {"0.0.1", "1.2.3"})
    @@ (AuthorPattern :> {"a", "n", "N", "x", "plugin", "app", "main", "python"})
    @@ (NamePattern :> {"a", "n", "x", "plugin", "app", "main", "python"})
    @@ (ProviderPattern :> {"provider/x.yaml"})
    @@ ("date-time" :> {"2024-01-01T00:00:00Z"})

\* ------------------------------------------------------------ the validator

\* An Ajv ErrorObject: instancePath (a token sequence, "/" before every
\* segment), keyword, message and params.
Failure(path, keyword, message, param, limit, allowed) ==
    [instancePath |-> path, keyword |-> keyword, message |-> message,
     param |-> param, limit |-> limit, allowedValues |-> allowed]

typeOk(t, v) == IF t = "integer" THEN v.k = "number" ELSE v.k = t

inSeq(x, seq) == \E i \in 1..Len(seq) : seq[i] = x

propNames(S) == [i \in 1..Len(S.properties) |-> S.properties[i].name]

\* The failures of value v against schema S, in the order Ajv reports them
\* with allErrors: the type, the keywords of any type, then the keywords
\* of the value's own type.
RECURSIVE ajvValidate(_, _, _)
RECURSIVE ajvRequired(_, _, _, _)
RECURSIVE ajvAdditional(_, _, _, _)
RECURSIVE ajvProperties(_, _, _, _)
RECURSIVE ajvItems(_, _, _, _)
ajvRequired(S, v, path, i) ==
    IF i > Len(S.required) THEN <<>>
    ELSE (IF hasKey(v, S.required[i]) THEN <<>>
          ELSE <<Failure(path, "required",
                         "must have required property '" \o S.required[i] \o "'",
                         S.required[i], -1, <<>>)>>)
         \o ajvRequired(S, v, path, i + 1)

ajvAdditional(S, v, path, i) ==
    IF i > Len(v.m) \/ S.additionalProperties = <<>> THEN <<>>
    ELSE (IF inSeq(v.m[i].key, propNames(S)) THEN <<>>
          ELSE ajvValidate(S.additionalProperties[1], v.m[i].val,
                           path \o <<Sep, v.m[i].key>>))
         \o ajvAdditional(S, v, path, i + 1)

ajvProperties(S, v, path, i) ==
    IF i > Len(S.properties) THEN <<>>
    ELSE (IF ~hasKey(v, S.properties[i].name) THEN <<>>
          ELSE ajvValidate(S.properties[i].schema, get(v, S.properties[i].name),
                           path \o <<Sep, S.properties[i].name>>))
         \o ajvProperties(S, v, path, i + 1)

ajvItems(S, v, path, i) ==
    IF i > Len(v.m) \/ S.items = <<>> THEN <<>>
    ELSE ajvValidate(S.items[1], v.m[i], path \o <<Sep, ToString(i - 1)>>)
         \o ajvItems(S, v, path, i + 1)

ajvValidate(S, v, path) ==
    (IF S.type # "" /\ ~typeOk(S.type, v)
     THEN <<Failure(path, "type", "must be " \o S.type, S.type, -1, <<>>)>>
     ELSE <<>>)
    \o (IF S.enum # <<>> /\ ~(v.k = "string" /\ inSeq(v.s, S.enum))
        THEN <<Failure(path, "enum", "must be equal to one of the allowed values",
                       "", -1, S.enum)>>
        ELSE <<>>)
    \o (IF v.k = "number" /\ S.maximum # -1 /\ v.n > S.maximum
        THEN <<Failure(path, "maximum", "must be <= " \o ToString(S.maximum),
                       "<=", S.maximum, <<>>)>>
        ELSE <<>>)
    \o (IF v.k = "number" /\ S.minimum # -1 /\ v.n < S.minimum
        THEN <<Failure(path, "minimum", "must be >= " \o ToString(S.minimum),
                       ">=", S.minimum, <<>>)>>
        ELSE <<>>)
    \o (IF v.k = "string" /\ S.pattern # "" /\ v.s \notin PatternMatches[S.pattern]
        THEN <<Failure(path, "pattern",
                       "must match pattern \"" \o S.pattern \o "\"",
                       S.pattern, -1, <<>>)>>
        ELSE <<>>)
    \o (IF v.k = "string" /\ S.format # "" /\ v.s \notin PatternMatches[S.format]
        THEN <<Failure(path, "format",
                       "must match format \"" \o S.format \o "\"",
                       S.format, -1, <<>>)>>
        ELSE <<>>)
    \o (IF v.k = "array" /\ S.minItems # -1 /\ Len(v.m) < S.minItems
        THEN <<Failure(path, "minItems",
                       "must NOT have fewer than " \o ToString(S.minItems) \o " items",
                       "", S.minItems, <<>>)>>
        ELSE <<>>)
    \o (IF v.k = "array" THEN ajvItems(S, v, path, 1) ELSE <<>>)
    \o (IF v.k = "object" /\ S.minProperties # -1 /\ Len(v.m) < S.minProperties
        THEN <<Failure(path, "minProperties",
                       "must NOT have fewer than " \o ToString(S.minProperties)
                       \o " properties",
                       "", S.minProperties, <<>>)>>
        ELSE <<>>)
    \o (IF v.k = "object"
        THEN ajvRequired(S, v, path, 1) \o ajvAdditional(S, v, path, 1)
             \o ajvProperties(S, v, path, 1)
        ELSE <<>>)

\* const validate = ajv.compile(manifestSchema); validate(parsedYaml) is
\* false exactly when validate.errors holds failures.
validate(v) == ajvValidate(manifestSchema, v, <<>>)

\* validate.errors of each module that compiles the schema: what its last
\* call of validate left there, <<>> for null.
VARIABLE validateErrors

\* The modules that hold a compiled validate.
ValidatorModules == {"decorationProvider", "yamlValidator"}

\* ------------------------------------------------------------------ ranges

\* new vscode.Range(startLine, startCharacter, endLine, endCharacter)
Range(sl, sc, el, ec) == [sl |-> sl, sc |-> sc, el |-> el, ec |-> ec]

\* new vscode.Diagnostic(range, message, vscode.DiagnosticSeverity.Error)
Diagnostic(range, message, severity) ==
    [range |-> range, message |-> message, severity |-> severity]

\* The string a token sequence stands for.
RECURSIVE strOf(_)
strOf(toks) ==
    IF Len(toks) = 0 THEN ""
    ELSE IF Len(toks) = 1 THEN toks[1]
    ELSE strOf(SubSeq(toks, 1, Len(toks) \div 2))
         \o strOf(SubSeq(toks, Len(toks) \div 2 + 1, Len(toks)))

\* jsonPath.split('/').slice(1)
pathSegments(jsonPath) ==
    LET idx == {i \in 1..Len(jsonPath) : jsonPath[i] # Sep}
        nth(k) == CHOOSE i \in idx : Cardinality({j \in idx : j <= i}) = k
    IN [k \in 1..Cardinality(idx) |-> jsonPath[nth(k)]]

\* The largest array index a path of the catalogue can name.
MaxIndex == 3

\* /^\d+$/.test(segment), on the index tokens of the catalogue
isIndex(segment) == \E n \in 0..MaxIndex : ToString(n) = segment

\* parseInt(segment)
parseInt(segment) == CHOOSE n \in 0..MaxIndex : ToString(n) = segment

\* Number of consecutive "s" tokens of area from position j.
RECURSIVE runOfS(_, _)
runOfS(area, j) ==
    IF j <= Len(area) /\ area[j] = "s" THEN 1 + runOfS(area, j + 1) ELSE 0

\* The line starts of area, as the m flag sees them: its first position
\* and every position after a newline.
lineStarts(area) == {j \in 1..Len(area) + 1 : j = 1 \/ area[j - 1] = NL}

\* new RegExp(`^(\s*)(${segment}):`, 'm').exec(area).  In the template
\* literal \s is the letter s, so the first group matches letters s, not
\* white space.  [index, lead, len] in tokens, index 0 when no match.
keyMatch(area, segment) ==
    LET fits(j, k) ==
            /\ k <= runOfS(area, j)
            /\ j + k + 1 <= Len(area)
            /\ area[j + k] = segment
            /\ area[j + k + 1] = ":"
        at == {j \in lineStarts(area) : \E k \in 0..Len(area) : fits(j, k)}
        j0 == minOf(at)
        k0 == CHOOSE k \in 0..Len(area) :
                 fits(j0, k) /\ \A k2 \in 0..Len(area) : fits(j0, k2) => k2 <= k
    IN IF at = {} THEN [index |-> 0, lead |-> 0, len |-> 0]
       ELSE [index |-> j0, lead |-> k0, len |-> k0 + 2]

\* new RegExp(`^\s{${n}}-\s`, 'm').exec(area): n letters s, a dash and a
\* letter s at a line start.  [index, len] in tokens, index 0 when no match.
itemMatch(area, n) ==
    LET fits(j) ==
            /\ j + n + 1 <= Len(area)
            /\ \A i \in 0..(n - 1) : area[j + i] = "s"
            /\ area[j + n] = "-"
            /\ area[j + n + 1] = "s"
        at == {j \in lineStarts(area) : fits(j)}
    IN IF at = {} THEN [index |-> 0, len |-> 0]
       ELSE [index |-> minOf(at), len |-> n + 2]

\* docText.indexOf(needle) in tokens from 1, 0 when absent.
indexOf(text, needle) ==
    LET at == {j \in 1..(Len(text) - Len(needle) + 1) :
                 SubSeq(text, j, j + Len(needle) - 1) = needle}
    IN IF at = {} THEN 0 ELSE minOf(at)

\* text.substring(0, j - 1).split('\n').length - 1: the line of token j.
lineOfToken(text, j) == Cardinality({i \in 1..(j - 1) : text[i] = NL})

\* The while loop of the index branch: TRUE when the loop ends with a match.
RECURSIVE itemLoop(_, _, _, _, _)
itemLoop(area, n, lastIndex, matchIndex, wanted) ==
    LET found == itemMatch(SubSeq(area, lastIndex + 1, Len(area)), n)
    IN IF matchIndex > wanted THEN TRUE
       ELSE IF found.index = 0 THEN FALSE
       ELSE IF matchIndex = wanted THEN TRUE
       ELSE itemLoop(area, n, lastIndex + (found.index - 1) + found.len,
                     matchIndex + 1, wanted)

\* The key tokens of the catalogue that are no regular expression: new
\* RegExp throws a SyntaxError on a pattern built from one of them.
regExpThrows(segment) == segment \in {"c++"}

\* A range the walk returns; fallback tells the two returns marked
\* "// Fallback", taken when a segment is not found, from the others.
Found(range) ==
    [ok |-> TRUE, range |-> range, error |-> "", fallback |-> FALSE]

Fallback(range) ==
    [ok |-> TRUE, range |-> range, error |-> "", fallback |-> TRUE]

\* The SyntaxError of new RegExp(`^(\s*)(${segment}):`, 'm').
SyntaxError(segment) ==
    [ok |-> FALSE, range |-> Range(0, 0, 0, 0),
     error |-> "Invalid regular expression: /^(s*)(" \o segment
               \o "):/: Nothing to repeat",
     fallback |-> FALSE]

\* The for loop of getRangeForPath from segment i on: the range it
\* returns, or the error it throws.
RECURSIVE rangeWalk(_, _, _, _, _, _)
rangeWalk(docText, segs, i, currentLine, searchArea, currentIndent) ==
    IF i > Len(segs) THEN Found(Range(currentLine, 0, currentLine, 0))
    ELSE IF isIndex(segs[i])
    THEN IF itemLoop(searchArea, currentIndent + 2, 0, 0, parseInt(segs[i]))
         THEN rangeWalk(docText, segs, i + 1, currentLine, searchArea, currentIndent)
         ELSE Fallback(Range(currentLine, 0, currentLine, 0))
    ELSE IF regExpThrows(segs[i]) THEN SyntaxError(segs[i])
    ELSE LET matched(match) ==
                 LET match0 == SubSeq(searchArea, match.index,
                                      match.index + match.len - 1)
                     at == indexOf(docText, match0)
                     searchFromLine == lineOfToken(docText, at)
                 IN IF match.index = 0
                    THEN Fallback(Range(currentLine, 0, currentLine, 0))
                    ELSE IF i = Len(segs)
                    THEN Found(Range(searchFromLine, match.lead,
                                     searchFromLine, match.lead + Len(segs[i])))
                    ELSE rangeWalk(docText, segs, i + 1, searchFromLine,
                                   SubSeq(docText, at + match.len, Len(docText)),
                                   match.lead)
         IN matched(keyMatch(searchArea, segs[i]))

getRangeForPath(docText, jsonPath) ==
    rangeWalk(docText, pathSegments(jsonPath), 1, 0, docText, -1)

\* The search areas of the same loop from segment i on, one entry for
\* each key segment that regex.exec matched: where searchArea began
\* (scope, tokens before it), where in docText the match was (found),
\* the length of its first group (lead), where docText.indexOf(match[0])
\* put it (taken), and where the next searchArea begins (next).  Positions
\* are token indexes from 1.
RECURSIVE scopeWalk(_, _, _, _, _)
scopeWalk(docText, segs, i, searchArea, currentIndent) ==
    IF i > Len(segs) THEN <<>>
    ELSE IF isIndex(segs[i])
    THEN IF itemLoop(searchArea, currentIndent + 2, 0, 0, parseInt(segs[i]))
         THEN scopeWalk(docText, segs, i + 1, searchArea, currentIndent)
         ELSE <<>>
    ELSE IF regExpThrows(segs[i]) THEN <<>>
    ELSE LET taken(match, at) ==
                 <<[segment |-> segs[i],
                    scope |-> Len(docText) - Len(searchArea),
                    found |-> Len(docText) - Len(searchArea) + match.index,
                    lead |-> match.lead,
                    taken |-> at,
                    next |-> at + match.len - 1]>>
                 \o (IF i = Len(segs) THEN <<>>
                     ELSE scopeWalk(docText, segs, i + 1,
                                    SubSeq(docText, at + match.len, Len(docText)),
                                    match.lead))
             matched(match) ==
                 IF match.index = 0 THEN <<>>
                 ELSE taken(match,
                            indexOf(docText,
                                    SubSeq(searchArea, match.index,
                                           match.index + match.len - 1)))
         IN matched(keyMatch(searchArea, segs[i]))

\* document.positionAt(offset): [line, character], the offset clamped
\* to the text.
positionAt(text, offset) ==
    LET place(lines, off) ==
            LET line == CHOOSE n \in 1..Len(lines) :
                           /\ lineStart(lines, n) <= off
                           /\ n < Len(lines) => off < lineStart(lines, n + 1)
            IN [line |-> line - 1, character |-> off - lineStart(lines, line)]
    IN place(splitLines(text),
             IF offset < 0 THEN 0
             ELSE IF offset > charLen(text) THEN charLen(text) ELSE offset)

\* ------------------------------------------------------- the manifest pass

\* The body of validateManifest between the guards and the publication:
\* the diagnostics of one pass over a text, how often the pass called the
\* schema validator, and whether the pass threw to its caller.  Every
\* branch of the catch block builds a diagnostic, and positionAt clamps
\* its offset, so nothing is thrown.
\* One diagnostic for each failure, with no range resolved.
forEachErrorEager(text, errors) ==
    [i \in 1..Len(errors) |->
       Diagnostic(Range(0, 0, 0, 0), errors[i].message, "Error")]

\* A pass that runs the validator before it looks at the parse.
manifestPassValidateFirst(text) ==
    [diagnostics |-> forEachErrorEager(text, validate(yamlParse(text).v)),
     calls |-> 1, thrown |-> FALSE]

\* A pass that reads validate.errors as the call before this one left it.
manifestPassStale(text) ==
    IF yamlParse(text).ok
    THEN [diagnostics |->
            forEachErrorEager(text, validateErrors["decorationProvider"]),
          calls |-> 1, thrown |-> FALSE]
    ELSE [diagnostics |-> <<>>, calls |-> 0, thrown |-> FALSE]

\* A pass with no catch block: what the try throws reaches the caller.
manifestPassUncaught(text) ==
    LET pass(parsedYaml, errors) ==
            IF parsedYaml.ok
            THEN [diagnostics |-> forEachErrorEager(text, errors), calls |-> 1,
                  thrown |-> \E i \in 1..Len(errors) :
                                ~getRangeForPath(text, errors[i].instancePath).ok]
            ELSE [diagnostics |-> <<>>, calls |-> 0, thrown |-> TRUE]
    IN pass(yamlParse(text), validate(yamlParse(text).v))

\* validate.errors.forEach(...) from error i on, diagnostics the array so
\* far: the array at the end, with the diagnostic of the catch block last
\* when getRangeForPath threw.
RECURSIVE forEachError(_, _, _, _)
forEachError(text, errors, i, diagnostics) ==
    LET jsonPath == errors[i].instancePath
        ranged(range) ==
            IF ~range.ok
            THEN Append(diagnostics,
                        Diagnostic(Range(0, 0, 0, 0),
                                   "Validation Error: " \o range.error, "Error"))
            ELSE forEachError(text, errors, i + 1,
                              Append(diagnostics,
                                     Diagnostic(range.range,
                                                errors[i].message \o " ("
                                                \o strOf(jsonPath) \o ")",
                                                "Error")))
    IN IF i > Len(errors) THEN diagnostics
       ELSE ranged(getRangeForPath(text, jsonPath))

manifestPass(text) ==
    LET between(position, endPosition) ==
            Range(position.line, position.character,
                  endPosition.line, endPosition.character)
        pass(parsedYaml) ==
            IF parsedYaml.ok
            THEN [diagnostics |->
                    forEachError(text, validate(parsedYaml.v), 1, <<>>),
                  calls |-> 1, thrown |-> FALSE]
            ELSE [diagnostics |->
                    <<Diagnostic(between(positionAt(text, parsedYaml.pos[1]),
                                         positionAt(text, parsedYaml.pos[2])),
                                 "YAML Parsing Error: " \o parsedYaml.message,
                                 "Error")>>,
                  calls |-> 0, thrown |-> FALSE]
    IN pass(yamlParse(text))

\* ------------------------------------------- the pass of yamlValidator.ts

\* new RegExp(`${segment}\\s*:`, 'g').exec(text): the first place where
\* the segment, white space and a colon follow one another; [index, len]
\* in tokens, index 0 when there is none.  An empty segment leaves the
\* white space and the colon.
wordMatch(text, segment) ==
    LET o == IF segment = "" THEN 0 ELSE 1
        fits(j, k) ==
            /\ j + o + k <= Len(text)
            /\ segment # "" => text[j] = segment
            /\ \A i \in (j + o)..(j + o + k - 1) : text[i] \in {SP, NL}
            /\ text[j + o + k] = ":"
        at == {j \in 1..Len(text) : \E k \in 0..Len(text) : fits(j, k)}
        j0 == minOf(at)
        k0 == CHOOSE k \in 0..Len(text) : fits(j0, k)
    IN IF at = {} THEN [index |-> 0, len |-> 0]
       ELSE [index |-> j0, len |-> o + k0 + 1]

\* The offset in characters of token j of a text.
offsetOf(text, j) == charLen(SubSeq(text, 1, j - 1))

\* error.instancePath.replace(/^\//, '').split('/')
splitPath(instancePath) ==
    IF instancePath = <<>> THEN <<"">> ELSE pathSegments(instancePath)

\* path.join('.'), as a string
RECURSIVE joinDots(_)
joinDots(path) ==
    IF Len(path) = 0 THEN ""
    ELSE IF Len(path) = 1 THEN path[1]
    ELSE path[1] \o "." \o joinDots(Tail(path))

\* The loop of getErrorRange over parentSegments from segment i on:
\* whether the parent was found and the offset held for it.
RECURSIVE parentWalk(_, _, _, _, _)
parentWalk(searchText, parentSegments, i, currentOffset, parentPos) ==
    LET after(match, offset) ==
            parentWalk(SubSeq(searchText, match.index + match.len,
                              Len(searchText)),
                       parentSegments, i + 1, offset, offset)
        matched(match) ==
            IF match.index = 0 THEN [found |-> FALSE, pos |-> parentPos]
            ELSE after(match, currentOffset + offsetOf(searchText, match.index))
    IN IF i > Len(parentSegments) THEN [found |-> TRUE, pos |-> parentPos]
       ELSE matched(wordMatch(searchText, parentSegments[i]))

\* getErrorRange(error, parsedYaml, text, document).  A path of several
\* segments is looked for with dots between them, which no text of the
\* catalogue holds; a segment that is no regular expression makes new
\* RegExp throw inside the try, and the default range is returned.
getErrorRange(error, text) ==
    LET defaultRange == Range(0, 0, 0, 0)
        path == splitPath(error.instancePath)
        lastSegment == path[Len(path)]
        from(position, length) ==
            Range(position.line, position.character,
                  position.line, position.character + length)
        ofParent(parent) ==
            IF parent.found THEN from(positionAt(text, parent.pos), 0)
            ELSE defaultRange
        ofProperty(match) ==
            IF match.index # 0
            THEN from(positionAt(text, offsetOf(text, match.index)),
                      charLen(SubSeq(text, match.index,
                                     match.index + match.len - 1)))
            ELSE defaultRange
    IN IF \E i \in 1..Len(path) : regExpThrows(path[i]) THEN defaultRange
       ELSE IF error.keyword = "required"
       THEN ofParent(parentWalk(text, path \o <<"">>, 1, 0, 0))
       ELSE ofProperty(wordMatch(text, lastSegment))

\* params.allowedValues.join(', ')
RECURSIVE joinComma(_)
joinComma(values) ==
    IF Len(values) = 0 THEN ""
    ELSE IF Len(values) = 1 THEN values[1]
    ELSE values[1] \o ", " \o joinComma(Tail(values))

\* formatErrorMessage(error)
formatErrorMessage(error) ==
    LET formattedPath ==
            IF error.instancePath = <<>> THEN ""
            ELSE joinDots(pathSegments(error.instancePath))
        quoted == "'" \o formattedPath \o "'"
    IN CASE error.keyword = "required" ->
              "Missing required property: '" \o error.param \o "'"
         [] error.keyword = "type" -> quoted \o " should be " \o error.param
         [] error.keyword = "enum" ->
              quoted \o " should be one of: " \o joinComma(error.allowedValues)
         [] error.keyword = "pattern" ->
              quoted \o " should match pattern: " \o error.param
         [] error.keyword = "format" ->
              quoted \o " should be a valid " \o error.param
         [] error.keyword = "minimum" ->
              quoted \o " should be >= " \o ToString(error.limit)
         [] error.keyword = "maximum" ->
              quoted \o " should be <= " \o ToString(error.limit)
         [] error.keyword = "minProperties" ->
              quoted \o " should have at least " \o ToString(error.limit)
              \o " properties"
         [] OTHER -> error.message

\* const requiredTopLevelFields = [...] of fallbackValidation
requiredTopLevelFields ==
    <<"version", "type", "author", "name", "label", "description", "icon",
      "resource", "meta">>

\* parsedYaml[field] is truthy
truthyField(parsedYaml, field) ==
    /\ parsedYaml.k = "object"
    /\ hasKey(parsedYaml, field)
    /\ ~falsy(get(parsedYaml, field))

\* The loop of fallbackValidation over the required fields from field i on.
RECURSIVE fallbackFields(_, _, _)
fallbackFields(parsedYaml, text, i) ==
    LET field == requiredTopLevelFields[i]
        from(position) ==
            Range(position.line, position.character,
                  position.line, position.character + Len(field) + 1)
        valueless(match) ==
            IF match.index # 0
            THEN <<Diagnostic(from(positionAt(text, offsetOf(text, match.index))),
                              "The '" \o field
                              \o "' field is required but has no value",
                              "Error")>>
            ELSE <<Diagnostic(Range(0, 0, 0, 0),
                              "Missing required field: '" \o field \o "'",
                              "Error")>>
    IN IF i > Len(requiredTopLevelFields) THEN <<>>
       ELSE (IF truthyField(parsedYaml, field) THEN <<>>
             ELSE valueless(wordMatch(text, field)))
            \o fallbackFields(parsedYaml, text, i + 1)

\* fallbackValidation(parsedYaml, text, document, diagnostics): what it
\* pushes.  The type of every text of the catalogue is a string.
fallbackValidation(parsedYaml, text) ==
    LET typeValue == get(parsedYaml, "type")
        from(typePosition, typeLength) ==
            Range(typePosition.line, typePosition.character,
                  typePosition.line,
                  typePosition.character + typeLength + Len(typeValue.s))
        typed(typeMatch) ==
            IF /\ truthyField(parsedYaml, "type")
               /\ typeValue # Str("plugin")
               /\ typeMatch.index # 0
            THEN <<Diagnostic(from(positionAt(text,
                                              offsetOf(text, typeMatch.index)),
                                   charLen(SubSeq(text, typeMatch.index,
                                                  typeMatch.index
                                                  + typeMatch.len - 1))),
                              "Type must be 'plugin'", "Error")>>
            ELSE <<>>
    IN fallbackFields(parsedYaml, text, 1) \o typed(wordMatch(text, "type"))

\* document.lineAt(Math.min(lineNumber, document.lineCount - 1)) of the
\* catch block throws for a line below 0.  lineMatch is <<n>> for the
\* number after "line " in the message, <<>> when the message has none.
lineAtThrows(text, lineMatch) ==
    /\ lineMatch # <<>>
    /\ lineMatch[1] - 1 < 0

\* The catch block of validateYamlDocument for an error with this message.
catchParsingError(text, message, lineMatch) ==
    LET lines == splitLines(text)
        lineNumber == lineMatch[1] - 1
        lineCount == Len(lines)
        at == IF lineNumber < lineCount - 1 THEN lineNumber ELSE lineCount - 1
        range == IF lineMatch # <<>>
                 THEN Range(at, 0, at, charLen(lines[at + 1]))
                 ELSE Range(0, 0, 0, 0)
    IN <<Diagnostic(range, "YAML parsing error: " \o message, "Error")>>

\* A pass that takes only null for an empty document.
yamlPassNullOnly(text, compiled) ==
    LET forEach(errors) ==
            [i \in 1..Len(errors) |->
               Diagnostic(getErrorRange(errors[i], text),
                          formatErrorMessage(errors[i]), "Error")]
        pass(parsedYaml) ==
            IF ~parsedYaml.ok
            THEN [diagnostics |->
                    catchParsingError(text, parsedYaml.message,
                                      <<parsedYaml.line>>),
                  calls |-> 0,
                  thrown |-> lineAtThrows(text, <<parsedYaml.line>>)]
            ELSE IF parsedYaml.v = Null
            THEN [diagnostics |->
                    catchParsingError(text, "Empty YAML document", <<>>),
                  calls |-> 0, thrown |-> FALSE]
            ELSE IF compiled
            THEN [diagnostics |-> forEach(validate(parsedYaml.v)), calls |-> 1,
                  thrown |-> FALSE]
            ELSE [diagnostics |-> fallbackValidation(parsedYaml.v, text),
                  calls |-> 0, thrown |-> FALSE]
    IN pass(yamlParse(text))

\* The body of validateYamlDocument between the guard and the
\* publication: the diagnostics of one pass over a text, and how often the
\* pass called the schema validator; compiled is FALSE when
\* initializeValidator left validate null.
yamlPass(text, compiled) ==
    LET forEach(errors) ==
            [i \in 1..Len(errors) |->
               Diagnostic(getErrorRange(errors[i], text),
                          formatErrorMessage(errors[i]), "Error")]
        pass(parsedYaml) ==
            IF ~parsedYaml.ok
            THEN [diagnostics |->
                    catchParsingError(text, parsedYaml.message,
                                      <<parsedYaml.line>>),
                  calls |-> 0,
                  thrown |-> lineAtThrows(text, <<parsedYaml.line>>)]
            ELSE IF falsy(parsedYaml.v)
            THEN [diagnostics |->
                    catchParsingError(text, "Empty YAML document", <<>>),
                  calls |-> 0, thrown |-> FALSE]
            ELSE IF compiled
            THEN [diagnostics |-> forEach(validate(parsedYaml.v)), calls |-> 1,
                  thrown |-> FALSE]
            ELSE [diagnostics |-> fallbackValidation(parsedYaml.v, text),
                  calls |-> 0, thrown |-> FALSE]
    IN pass(yamlParse(text))

\* --------------------------------------------------------------- the texts

Spaces(n) == [i \in 1..n |-> SP]

KV(ind, key, val) == Spaces(ind) \o <<key, ":", SP, val>>

K(ind, key) == Spaces(ind) \o <<key, ":">>

Item(ind, val) == Spaces(ind) \o <<"-", SP, val>>

RECURSIVE joinLines(_)
joinLines(lines) ==
    IF Len(lines) = 0 THEN <<>>
    ELSE IF Len(lines) = 1 THEN lines[1]
    ELSE lines[1] \o <<NL>> \o joinLines(Tail(lines))

\* A manifest whose type, label entry, icon and runner lines are given.
ManifestIcon(type, label, icon, runner) ==
    joinLines(<<KV(0, "version", "0.0.1"),
                KV(0, "type", type),
                KV(0, "author", "a"),
                KV(0, "name", "n"),
                K(0, "label"),
                label,
                K(0, "description"),
                KV(2, "en_US", "x"),
                KV(0, "icon", icon),
                K(0, "resource"),
                KV(2, "memory", "1048576"),
                K(0, "meta"),
                KV(2, "version", "0.0.1"),
                K(2, "arch"),
                Item(4, "amd64"),
                K(2, "runner")>> \o runner)

Manifest(type, label, runner) == ManifestIcon(type, label, "icon.svg", runner)

\* A manifest that satisfies the schema.
TextValid ==
    Manifest("plugin", KV(2, "en_US", "x"),
             <<KV(4, "language", "python"), KV(4, "version", "py3"),
               KV(4, "entrypoint", "main")>>)

\* A manifest that satisfies the schema, with the empty string as icon.
TextNoIcon ==
    ManifestIcon("plugin", KV(2, "en_US", "x"), "\"\"",
                 <<KV(4, "language", "python"), KV(4, "version", "py3"),
                   KV(4, "entrypoint", "main")>>)

\* type: app, an enum failure at /type.
TextApp ==
    Manifest("app", KV(2, "en_US", "x"),
             <<KV(4, "language", "python"), KV(4, "version", "py3"),
               KV(4, "entrypoint", "main")>>)

\* No entrypoint and language: java, two failures under /meta/runner.
TextRunner ==
    Manifest("plugin", KV(2, "en_US", "x"),
             <<KV(4, "language", "java"), KV(4, "version", "py3")>>)

\* type: app, a label c++ that is no string, no entrypoint and language:
\* java: four failures, the second at /label/c++.
TextPlus ==
    Manifest("app", KV(2, "c++", "1"),
             <<KV(4, "language", "java"), KV(4, "version", "py3")>>)

\* The example of the required fields: six are missing.
TextPartial ==
    joinLines(<<KV(0, "type", "plugin"), KV(0, "author", "a"), KV(0, "name", "n")>>)

\* An unclosed flow sequence on line 2.
TextBad == joinLines(<<KV(0, "type", "plugin"), <<"[">> >>)

\* Nothing at all, which parses to null.
TextEmpty == <<>>

\* The number 0, which parses to a value that JavaScript takes for false.
TextZero == <<"0">>

Texts ==
    {TextValid, TextNoIcon, TextApp, TextRunner, TextPlus, TextPartial,
     TextBad, TextEmpty, TextZero}

\* The pass over each text of the catalogue, computed once.
passOf == [t \in Texts |-> manifestPass(t)]

yamlPassCompiled == [t \in Texts |-> yamlPass(t, TRUE)]

yamlPassNull == [t \in Texts |-> yamlPass(t, FALSE)]

\* yaml.parse and validate on the texts of the catalogue.
parseOf == [t \in Texts |-> yamlParse(t)]

errorsOf == [t \in Texts |-> validate(parseOf[t].v)]

\* --------------------------------------------------------------- the state

VARIABLES
    activated,            \* activate has run
    workspaceFolders,     \* vscode.workspace.workspaceFolders, in order
    files,                \* the marker files that exist on disk
    textOf,               \* the text of each document
    visibleTextEditors,   \* the documents shown in a visible editor
    confirmedDifyDirs,    \* extension.ts: the confirmed directories (uri strings)
    difyDirectories,      \* the decoration provider's directories (uri strings)
    diagnosticCollection, \* the sink: per document [has, list]
    published,            \* per document, the pass the sink's list is of: [text, folder]
    lastCheck,            \* per root, what its most recent check found
    log,                  \* what the handler that ran last did, in order
    validateFn,           \* yamlValidator.ts: validate, "null" or "compiled"
    activeTextEditor,     \* the document of the active editor, <<>> for none
    yamlDiagnostics,      \* yamlValidator.ts: the sink, per document [has, list]
    yamlPublished,        \* per document, the pass that list is of: [text, compiled]
    difyDirectoryPaths,   \* modeline variant: difyDirectories (paths)
    modelines,            \* the manifests on disk that begin with the modeline
    lastPass,             \* the pass run last by itself: [text, kind, out]
    earlierPass,          \* a pass that was run before it
    lastWalk              \* the call of getRangeForPath made last by itself

vars ==
    <<activated, workspaceFolders, files, textOf, visibleTextEditors,
      confirmedDifyDirs, difyDirectories, diagnosticCollection, published,
      lastCheck, log, validateFn, activeTextEditor, yamlDiagnostics,
      yamlPublished, difyDirectoryPaths, modelines, validateErrors, lastPass,
      earlierPass, lastWalk>>

\* The state of the extension that writes the modeline.
modelineVars == <<difyDirectoryPaths, modelines>>

\* The state of the extension built on yamlValidator.ts.
yamlVars == <<validateFn, activeTextEditor, yamlDiagnostics, yamlPublished>>

\* The state of the passes run by themselves.
passVars == <<validateErrors, lastPass, earlierPass, lastWalk>>

\* The state of the extension built on the decoration provider.
providerVars ==
    <<visibleTextEditors, confirmedDifyDirs, difyDirectories,
      diagnosticCollection, published, lastCheck>>

\* The orders in which the candidate roots can be workspace folders.
FolderLists == {<<>>, <<RootP>>, <<RootPQ>>, <<RootP, RootPQ>>, <<RootPQ, RootP>>}

\* The documents whose editor becomes visible and hidden.
VisibleDocs == {DocP, DocPQ}

\* The order in which activate walks the visible editors.
EditorOrder == <<DocP, DocPQ>>

NoEntry == [has |-> FALSE, list |-> <<>>]

NoPass == [text |-> <<>>, folder |-> <<>>]

NoYamlPass == [text |-> <<>>, compiled |-> FALSE]

NoRun == [text |-> <<>>, kind |-> "none", out |-> <<>>, n |-> 0]

NoWalk ==
    [docText |-> <<>>, jsonPath |-> <<>>, keyword |-> "none",
     out |-> [ok |-> TRUE, range |-> [sl |-> 0, sc |-> 0, el |-> 0, ec |-> 0],
              error |-> "", fallback |-> FALSE],
     scopes |-> <<>>, n |-> 0]

folderSet == {workspaceFolders[i] : i \in 1..Len(workspaceFolders)}

\* fs.existsSync(filePath)
existsSync(filePath) == filePath \in files \cup FixedFiles

\* What a handler works on: the extension's and the provider's state, and
\* the log of what the handler did (an event is [e, a, pre, all]).
Store ==
    [confirmedDifyDirs |-> confirmedDifyDirs,
     difyDirectories |-> difyDirectories,
     diagnosticCollection |-> diagnosticCollection,
     published |-> published,
     lastCheck |-> lastCheck,
     log |-> <<>>]

Ev(e, a) == [e |-> e, a |-> a, pre |-> FALSE, all |-> FALSE]

emit(G, ev) == [G EXCEPT !.log = Append(@, ev)]

\* ------------------------------------------------- the decoration provider

\* DifyManifestDecorationProvider.addDifyDirectory
addDifyDirectory(G, dirUriString) ==
    IF dirUriString \notin G.difyDirectories
    THEN emit([emit(G, Ev("add", dirUriString))
                 EXCEPT !.difyDirectories = @ \cup {dirUriString}],
              Ev("fire", dirUriString))
    ELSE emit(G, Ev("add", dirUriString))

\* A provider that keeps a directory it is told to remove.
removeDifyDirectoryNever(G, dirUriString) ==
    emit(G, Ev("remove", dirUriString))

\* DifyManifestDecorationProvider.removeDifyDirectory
removeDifyDirectory(G, dirUriString) ==
    IF dirUriString \in G.difyDirectories
    THEN emit([emit(G, Ev("remove", dirUriString))
                 EXCEPT !.difyDirectories = @ \ {dirUriString}],
              Ev("fire", dirUriString))
    ELSE emit(G, Ev("remove", dirUriString))

\* DifyManifestDecorationProvider.provideFileDecoration: TRUE when the
\* file of this uri string is decorated.
provideFileDecoration(uri) ==
    /\ basename(fsPathOf(uri)) = <<ManifestName>>
    /\ dirname(uri) \in difyDirectories

\* ---------------------------------------------------------------- the sink

\* A sink that adds the new list to the one it holds.
collectionSetAppend(collection, doc, diagnostics) ==
    [collection EXCEPT ![doc] = [has |-> TRUE, list |-> @.list \o diagnostics]]

\* diagnosticCollection.set(uri, diagnostics)
collectionSet(collection, doc, diagnostics) ==
    [collection EXCEPT ![doc] = [has |-> TRUE, list |-> diagnostics]]

\* diagnosticCollection.delete(uri)
collectionDelete(collection, doc) ==
    IF doc \in DOMAIN collection THEN [collection EXCEPT ![doc] = NoEntry]
    ELSE collection

\* validateManifest(document, diagnosticCollection, workspaceFolderUri);
\* folder is <<>> for undefined.
validateManifest(G, doc, folder) ==
    IF folder = <<>> \/ ~startsWith(doc, folder) THEN G
    ELSE IF basename(doc) # <<ManifestName>> THEN G
    ELSE LET G1 == emit(G, [e |-> "pass", a |-> doc,
                            pre |-> uriString(dirname(doc)) \in G.confirmedDifyDirs,
                            all |-> FALSE])
             publish(pass) ==
                 IF pass.thrown THEN emit(G1, Ev("throw", doc))
                 ELSE
                 emit([(IF pass.calls > 0 THEN emit(G1, Ev("validate", doc))
                        ELSE G1)
                         EXCEPT
                         !.diagnosticCollection =
                             collectionSet(@, doc, pass.diagnostics),
                         !.published[doc] =
                             [text |-> textOf[doc], folder |-> folder]],
                      [e |-> "publish", a |-> doc,
                       pre |-> G.diagnosticCollection[doc].has,
                       all |-> G.diagnosticCollection[doc].list
                               # pass.diagnostics])
         IN publish(passOf[textOf[doc]])

\* ---------------------------------------------------------- the classifier

\* The loop stops one file short: main.py is never looked for.
allFilesExistShort(workspaceRoot) ==
    \A i \in 1..(Len(difyFiles) - 1) :
        existsSync(joinPath(workspaceRoot, difyFiles[i]))

\* The for loop of checkDifyDirectory over difyFiles: TRUE when every
\* file exists under the root.
allFilesExist(workspaceRoot) ==
    \A i \in 1..Len(difyFiles) : existsSync(joinPath(workspaceRoot, difyFiles[i]))

\* No memory of the confirmed roots, as in the variant of
\* checkDifyDirectory that announces the directory on every check.
isConfirmedNever(G, workspaceUriString) == FALSE

\* confirmedDifyDirs.has(workspaceUriString)
isConfirmed(G, workspaceUriString) == workspaceUriString \in G.confirmedDifyDirs

\* The branch of checkDifyDirectory that removes a confirmed root.
demote(G, workspaceRoot) ==
    LET workspaceUriString == uriString(workspaceRoot)
        manifestUri == joinPath(workspaceRoot, ManifestName)
    IN emit([removeDifyDirectory(
                [G EXCEPT !.confirmedDifyDirs = @ \ {workspaceUriString}],
                workspaceUriString)
               EXCEPT !.diagnosticCollection = collectionDelete(@, manifestUri),
                      !.published[manifestUri] = NoPass],
            Ev("clear", manifestUri))

\* The confirming branch without its showInformationMessage.
promoteSilent(G, workspaceRoot) ==
    LET workspaceUriString == uriString(workspaceRoot)
        manifestUri == joinPath(workspaceRoot, ManifestName)
        G1 == addDifyDirectory(
                 [G EXCEPT !.confirmedDifyDirs = @ \cup {workspaceUriString}],
                 workspaceUriString)
    IN IF manifestUri \in visibleTextEditors
       THEN validateManifest(G1, manifestUri, workspaceRoot)
       ELSE G1

\* The confirming branch that validates the manifest whether or not an
\* editor shows it.
promoteEager(G, workspaceRoot) ==
    validateManifest(
        emit(addDifyDirectory(
                [G EXCEPT !.confirmedDifyDirs = @ \cup {uriString(workspaceRoot)}],
                uriString(workspaceRoot)),
             Ev("note", uriString(workspaceRoot))),
        joinPath(workspaceRoot, ManifestName), workspaceRoot)

\* The branch of checkDifyDirectory that confirms a root.
promote(G, workspaceRoot) ==
    LET workspaceUriString == uriString(workspaceRoot)
        manifestUri == joinPath(workspaceRoot, ManifestName)
        G1 == emit(addDifyDirectory(
                      [G EXCEPT !.confirmedDifyDirs = @ \cup {workspaceUriString}],
                      workspaceUriString),
                   Ev("note", workspaceUriString))
    IN IF manifestUri \in visibleTextEditors
       THEN validateManifest(G1, manifestUri, workspaceRoot)
       ELSE G1

\* What a check of the root meets on disk: every marker file is there.
markersPresent(workspaceRoot) ==
    \A name \in {".difyignore", "manifest.yaml", "main.py"} :
        joinPath(workspaceRoot, name) \in files \cup FixedFiles

\* checkDifyDirectory(folder). The events "check" and "return" and
\* lastCheck record the call: what was on disk and whether the root was
\* confirmed when it began.
checkDifyDirectory(G, workspaceRoot) ==
    LET workspaceUriString == uriString(workspaceRoot)
        G0 == emit([G EXCEPT !.lastCheck[workspaceRoot] =
                                 IF markersPresent(workspaceRoot)
                                 THEN "all" ELSE "missing"],
                   [e |-> "check", a |-> workspaceUriString,
                    pre |-> workspaceUriString \in G.confirmedDifyDirs,
                    all |-> markersPresent(workspaceRoot)])
    IN emit(IF ~allFilesExist(workspaceRoot)
            THEN (IF isConfirmed(G0, workspaceUriString)
                  THEN demote(G0, workspaceRoot) ELSE G0)
            ELSE IF ~isConfirmed(G0, workspaceUriString)
            THEN promote(G0, workspaceRoot)
            ELSE G0,
            Ev("return", workspaceUriString))

\* getWorkspaceFolderForUri(uri): the first workspace folder whose path
\* the document's path starts with, <<>> for undefined.
getWorkspaceFolderForUri(doc) ==
    LET hits == {i \in 1..Len(workspaceFolders) :
                   startsWith(doc, workspaceFolders[i])}
    IN IF hits = {} THEN <<>> ELSE workspaceFolders[minOf(hits)]

\* A listener that confirms the folder of the manifest it is given.
onDocumentConfirming(G, doc) ==
    IF basename(doc) = <<ManifestName>> /\ getWorkspaceFolderForUri(doc) # <<>>
    THEN validateManifest(
             addDifyDirectory(
                 [G EXCEPT !.confirmedDifyDirs =
                      @ \cup {uriString(getWorkspaceFolderForUri(doc))}],
                 uriString(getWorkspaceFolderForUri(doc))),
             doc, getWorkspaceFolderForUri(doc))
    ELSE G

\* The listener of onDidOpenTextDocument, of onDidSaveTextDocument and
\* of onDidChangeActiveTextEditor, and the body of the initial validation.
onDocument(G, doc) ==
    LET folder == getWorkspaceFolderForUri(doc)
    IN IF /\ basename(doc) = <<ManifestName>>
          /\ folder # <<>>
          /\ uriString(folder) \in G.confirmedDifyDirs
       THEN validateManifest(G, doc, folder)
       ELSE G

\* A listener that leaves a removed folder confirmed.
onFolderRemovedKeep(G, root) == G

\* The removed half of the onDidChangeWorkspaceFolders listener.
onFolderRemoved(G, root) ==
    LET removedUriString == uriString(root)
        manifestUri == joinPath(root, ManifestName)
    IN IF removedUriString \in G.confirmedDifyDirs
       THEN emit([removeDifyDirectory(
                     [G EXCEPT !.confirmedDifyDirs = @ \ {removedUriString}],
                     removedUriString)
                    EXCEPT !.diagnosticCollection =
                               collectionDelete(@, manifestUri),
                           !.published[manifestUri] = NoPass],
                 Ev("clear", manifestUri))
       ELSE G

RECURSIVE checkAll(_, _, _)
checkAll(G, folders, i) ==
    IF i > Len(folders) THEN G
    ELSE checkAll(checkDifyDirectory(G, folders[i]), folders, i + 1)

RECURSIVE validateVisible(_, _)
validateVisible(G, i) ==
    IF i > Len(EditorOrder) THEN G
    ELSE validateVisible(IF EditorOrder[i] \in visibleTextEditors
                         THEN onDocument(G, EditorOrder[i]) ELSE G,
                         i + 1)

\* ------------------------------------------------------------- the actions

Init ==
    /\ activated = FALSE
    /\ workspaceFolders \in FolderLists
    /\ files \in SUBSET MarkerFiles
    /\ textOf \in {[d \in Docs |-> IF d = DocP THEN t ELSE TextApp] :
                     t \in Texts}
    /\ visibleTextEditors \in SUBSET VisibleDocs
    /\ confirmedDifyDirs = {}
    /\ difyDirectories = {}
    /\ diagnosticCollection = [d \in Docs |-> NoEntry]
    /\ published = [d \in Docs |-> NoPass]
    /\ lastCheck = [r \in Roots |-> "none"]
    /\ log = <<>>
    /\ validateFn = "null"
    /\ activeTextEditor = <<>>
    /\ yamlDiagnostics = [d \in Docs |-> NoEntry]
    /\ yamlPublished = [d \in Docs |-> NoYamlPass]
    /\ difyDirectoryPaths = {}
    /\ modelines = {}
    /\ validateErrors = [m \in ValidatorModules |-> <<>>]
    /\ lastPass = NoRun
    /\ earlierPass = NoRun
    /\ lastWalk = NoWalk

\* A handler's store becomes the state.
Commit(G) ==
    /\ confirmedDifyDirs' = G.confirmedDifyDirs
    /\ difyDirectories' = G.difyDirectories
    /\ diagnosticCollection' = G.diagnosticCollection
    /\ published' = G.published
    /\ lastCheck' = G.lastCheck
    /\ log' = G.log

\* Something outside the extension happened: no handler ran.
Quiet ==
    /\ log' = <<>>
    /\ UNCHANGED <<confirmedDifyDirs, difyDirectories, diagnosticCollection,
                   published, lastCheck>>

\* activate(context): the check of every workspace folder, then the
\* validation of the visible manifests.
Activate ==
    /\ ~activated
    /\ activated' = TRUE
    /\ Commit(validateVisible(checkAll(Store, workspaceFolders, 1), 1))
    /\ UNCHANGED <<workspaceFolders, files, textOf, visibleTextEditors>>
    /\ UNCHANGED yamlVars
    /\ UNCHANGED modelineVars
    /\ UNCHANGED passVars

\* checkDifyDirectory on a folder of the workspace.
CheckDirectory(root) ==
    /\ activated
    /\ root \in folderSet
    /\ Commit(checkDifyDirectory(Store, root))
    /\ UNCHANGED <<activated, workspaceFolders, files, textOf, visibleTextEditors>>
    /\ UNCHANGED yamlVars
    /\ UNCHANGED modelineVars
    /\ UNCHANGED passVars

\* onDidChangeWorkspaceFolders with one folder added.
FolderAdded(root) ==
    /\ activated
    /\ root \notin folderSet
    /\ workspaceFolders' = Append(workspaceFolders, root)
    /\ Commit(checkDifyDirectory(Store, root))
    /\ UNCHANGED <<activated, files, textOf, visibleTextEditors>>
    /\ UNCHANGED yamlVars
    /\ UNCHANGED modelineVars
    /\ UNCHANGED passVars

\* onDidChangeWorkspaceFolders with one folder removed.
FolderRemoved(root) ==
    /\ activated
    /\ root \in folderSet
    /\ workspaceFolders' = SelectSeq(workspaceFolders, LAMBDA r : r # root)
    /\ Commit(onFolderRemoved(Store, root))
    /\ UNCHANGED <<activated, files, textOf, visibleTextEditors>>
    /\ UNCHANGED yamlVars
    /\ UNCHANGED modelineVars
    /\ UNCHANGED passVars

\* onDidOpenTextDocument
OpenDocument(doc) ==
    /\ activated
    /\ Commit(onDocument(Store, doc))
    /\ UNCHANGED <<activated, workspaceFolders, files, textOf, visibleTextEditors>>
    /\ UNCHANGED yamlVars
    /\ UNCHANGED modelineVars
    /\ UNCHANGED passVars

\* onDidSaveTextDocument
SaveDocument(doc) ==
    /\ activated
    /\ Commit(onDocument(Store, doc))
    /\ UNCHANGED <<activated, workspaceFolders, files, textOf, visibleTextEditors>>
    /\ UNCHANGED yamlVars
    /\ UNCHANGED modelineVars
    /\ UNCHANGED passVars

\* onDidChangeActiveTextEditor
ChangeActiveEditor(doc) ==
    /\ activated
    /\ Commit(onDocument(Store, doc))
    /\ UNCHANGED <<activated, workspaceFolders, files, textOf, visibleTextEditors>>
    /\ UNCHANGED yamlVars
    /\ UNCHANGED modelineVars
    /\ UNCHANGED passVars

\* The user edits the manifest of the first root: no listener runs.
EditDocument(text) ==
    /\ activated
    /\ text # textOf[DocP]
    /\ textOf' = [textOf EXCEPT ![DocP] = text]
    /\ Quiet
    /\ UNCHANGED <<activated, workspaceFolders, files, visibleTextEditors>>
    /\ UNCHANGED yamlVars
    /\ UNCHANGED modelineVars
    /\ UNCHANGED passVars

\* A marker file appears on disk: nothing watches the files.
CreateFile(f) ==
    /\ activated
    /\ f \notin files
    /\ files' = files \cup {f}
    /\ Quiet
    /\ UNCHANGED <<activated, workspaceFolders, textOf, visibleTextEditors>>
    /\ UNCHANGED yamlVars
    /\ UNCHANGED modelineVars
    /\ UNCHANGED passVars

\* A marker file disappears from disk.
DeleteFile(f) ==
    /\ activated
    /\ f \in files
    /\ files' = files \ {f}
    /\ Quiet
    /\ UNCHANGED <<activated, workspaceFolders, textOf, visibleTextEditors>>
    /\ UNCHANGED yamlVars
    /\ UNCHANGED modelineVars
    /\ UNCHANGED passVars

\* An editor on a manifest becomes visible.
ShowEditor(doc) ==
    /\ activated
    /\ doc \notin visibleTextEditors
    /\ visibleTextEditors' = visibleTextEditors \cup {doc}
    /\ Quiet
    /\ UNCHANGED <<activated, workspaceFolders, files, textOf>>
    /\ UNCHANGED yamlVars
    /\ UNCHANGED modelineVars
    /\ UNCHANGED passVars

\* The editor on a manifest is closed.
HideEditor(doc) ==
    /\ activated
    /\ doc \in visibleTextEditors
    /\ visibleTextEditors' = visibleTextEditors \ {doc}
    /\ Quiet
    /\ UNCHANGED <<activated, workspaceFolders, files, textOf>>
    /\ UNCHANGED yamlVars
    /\ UNCHANGED modelineVars
    /\ UNCHANGED passVars

\* The editor asks the provider for the decoration of a file.
ProvideDecoration(doc) ==
    /\ activated
    /\ log' = <<[e |-> "decorate", a |-> doc,
                 pre |-> provideFileDecoration(uriString(doc)),
                 all |-> FALSE]>>
    /\ UNCHANGED <<confirmedDifyDirs, difyDirectories, diagnosticCollection,
                   published, lastCheck>>
    /\ UNCHANGED <<activated, workspaceFolders, files, textOf, visibleTextEditors>>
    /\ UNCHANGED yamlVars
    /\ UNCHANGED modelineVars
    /\ UNCHANGED passVars

Next ==
    \/ Activate
    \/ \E root \in Roots : CheckDirectory(root)
    \/ \E root \in Roots : FolderAdded(root)
    \/ \E root \in Roots : FolderRemoved(root)
    \/ \E doc \in Docs : OpenDocument(doc)
    \/ \E doc \in Docs : SaveDocument(doc)
    \/ \E doc \in Docs : ChangeActiveEditor(doc)
    \/ \E text \in Texts : EditDocument(text)
    \/ \E f \in MarkerFiles : CreateFile(f)
    \/ \E f \in MarkerFiles : DeleteFile(f)
    \/ \E doc \in VisibleDocs : ShowEditor(doc)
    \/ \E doc \in VisibleDocs : HideEditor(doc)

Spec == Init /\ [][Next]_vars

\* The extension as it runs by itself: activation, the listeners that
\* activate registers, the queries of the provider, and the disk.  checkDifyDirectory is called by
\* Activate and FolderAdded only; no listener is registered for a change
\* of the files.
InitWatch ==
    /\ Init
    /\ workspaceFolders = <<RootP>>
    /\ files = MarkerFiles
    /\ textOf = [d \in Docs |-> TextApp]
    /\ visibleTextEditors = {DocP}

NextWatch ==
    \/ Activate
    \/ \E root \in Roots : FolderAdded(root)
    \/ \E root \in Roots : FolderRemoved(root)
    \/ \E doc \in Docs : OpenDocument(doc)
    \/ \E doc \in Docs : SaveDocument(doc)
    \/ \E doc \in Docs : ChangeActiveEditor(doc)
    \/ \E f \in MarkerFiles : CreateFile(f)
    \/ \E f \in MarkerFiles : DeleteFile(f)
    \/ \E doc \in Docs : ProvideDecoration(doc)

\* The extension is activated, and a listener whose event stays pending
\* runs.  Nothing makes the user remove or add a workspace folder, and
\* nothing makes a file appear or disappear.
FairWatch ==
    /\ WF_vars(Activate)
    /\ \A doc \in Docs :
          /\ WF_vars(OpenDocument(doc))
          /\ WF_vars(SaveDocument(doc))
          /\ WF_vars(ChangeActiveEditor(doc))

SpecWatch == InitWatch /\ [][NextWatch]_vars /\ FairWatch

\* ------------------------------------- the extension on yamlValidator.ts

\* What a handler of this extension works on.
YamlStore ==
    [yamlDiagnostics |-> yamlDiagnostics,
     yamlPublished |-> yamlPublished,
     log |-> <<>>]

\* isManifestFile(document)
isManifestFile(doc) == basename(doc) = <<ManifestName>>

\* validateYamlDocument(document) over this text, with validate compiled
\* or null.
validateYamlDocument(Y, doc, text, compiled) ==
    IF basename(doc) # <<ManifestName>> THEN Y
    ELSE LET Y1 == emit(Y, Ev("pass", doc))
             publish(pass) ==
                 IF pass.thrown THEN emit(Y1, Ev("throw", doc))
                 ELSE
                 emit([(IF pass.calls > 0 THEN emit(Y1, Ev("validate", doc))
                        ELSE Y1)
                         EXCEPT
                         !.yamlDiagnostics =
                             collectionSet(@, doc, pass.diagnostics),
                         !.yamlPublished[doc] =
                             [text |-> text, compiled |-> compiled]],
                      [e |-> "publish", a |-> doc,
                       pre |-> Y.yamlDiagnostics[doc].has,
                       all |-> Y.yamlDiagnostics[doc].list # pass.diagnostics])
         IN publish(IF compiled THEN yamlPassCompiled[text]
                    ELSE yamlPassNull[text])

\* decorateManifestFile(editor); editor is <<>> for undefined.
decorateManifestFile(Y, editor, text, compiled) ==
    IF editor = <<>> THEN Y
    ELSE IF ~isManifestFile(editor) THEN Y
    ELSE validateYamlDocument(emit(Y, Ev("decorate", editor)), editor, text,
                              compiled)

\* checkDifyDirectory(folder) of this extension: it only tells the user.
checkDifyDirectoryNotify(Y, workspaceRoot) ==
    IF allFilesExist(workspaceRoot)
    THEN emit(Y, Ev("note", uriString(workspaceRoot)))
    ELSE Y

RECURSIVE notifyAll(_, _, _)
notifyAll(Y, folders, i) ==
    IF i > Len(folders) THEN Y
    ELSE notifyAll(checkDifyDirectoryNotify(Y, folders[i]), folders, i + 1)

InitYaml ==
    /\ activated = FALSE
    /\ workspaceFolders \in {<<>>, <<RootP>>}
    /\ files \in {{}, MarkerFiles}
    /\ textOf \in {[d \in Docs |-> IF d = DocP THEN t ELSE TextApp] :
                     t \in Texts}
    /\ visibleTextEditors = {}
    /\ confirmedDifyDirs = {}
    /\ difyDirectories = {}
    /\ diagnosticCollection = [d \in Docs |-> NoEntry]
    /\ published = [d \in Docs |-> NoPass]
    /\ lastCheck = [r \in Roots |-> "none"]
    /\ log = <<>>
    /\ validateFn = "null"
    /\ activeTextEditor \in {<<>>} \cup Docs
    /\ yamlDiagnostics = [d \in Docs |-> NoEntry]
    /\ yamlPublished = [d \in Docs |-> NoYamlPass]
    /\ difyDirectoryPaths = {}
    /\ modelines = {}
    /\ validateErrors = [m \in ValidatorModules |-> <<>>]
    /\ lastPass = NoRun
    /\ earlierPass = NoRun
    /\ lastWalk = NoWalk

CommitYaml(Y) ==
    /\ yamlDiagnostics' = Y.yamlDiagnostics
    /\ yamlPublished' = Y.yamlPublished
    /\ log' = Y.log

\* activate(context) with initializeValidator: the schema file is read
\* and compiled, or reading it fails and validate stays null.
YamlActivate(loaded) ==
    /\ ~activated
    /\ activated' = TRUE
    /\ validateFn' = IF loaded THEN "compiled" ELSE "null"
    /\ CommitYaml(decorateManifestFile(notifyAll(YamlStore, workspaceFolders, 1),
                                       activeTextEditor,
                                       textOf[activeTextEditor], loaded))
    /\ UNCHANGED <<workspaceFolders, files, textOf, activeTextEditor>>
    /\ UNCHANGED providerVars
    /\ UNCHANGED modelineVars
    /\ UNCHANGED passVars

\* onDidChangeWorkspaceFolders with one folder added.
YamlFolderAdded(root) ==
    /\ activated
    /\ root \notin folderSet
    /\ workspaceFolders' = Append(workspaceFolders, root)
    /\ CommitYaml(checkDifyDirectoryNotify(YamlStore, root))
    /\ UNCHANGED <<activated, files, textOf, validateFn, activeTextEditor>>
    /\ UNCHANGED providerVars
    /\ UNCHANGED modelineVars
    /\ UNCHANGED passVars

\* onDidChangeWorkspaceFolders with one folder removed.
YamlFolderRemoved(root) ==
    /\ activated
    /\ root \in folderSet
    /\ workspaceFolders' = SelectSeq(workspaceFolders, LAMBDA r : r # root)
    /\ CommitYaml(YamlStore)
    /\ UNCHANGED <<activated, files, textOf, validateFn, activeTextEditor>>
    /\ UNCHANGED providerVars
    /\ UNCHANGED modelineVars
    /\ UNCHANGED passVars

\* onDidChangeActiveTextEditor
ChangeActiveTextEditor(editor) ==
    /\ activated
    /\ editor # activeTextEditor
    /\ activeTextEditor' = editor
    /\ CommitYaml(decorateManifestFile(YamlStore, editor, textOf[editor],
                                       validateFn = "compiled"))
    /\ UNCHANGED <<activated, workspaceFolders, files, textOf, validateFn>>
    /\ UNCHANGED providerVars
    /\ UNCHANGED modelineVars
    /\ UNCHANGED passVars

\* onDidChangeTextDocument: the manifest of the first root gets this text.
ChangeTextDocument(text) ==
    /\ activated
    /\ text # textOf[DocP]
    /\ textOf' = [textOf EXCEPT ![DocP] = text]
    /\ CommitYaml(IF activeTextEditor # <<>> /\ DocP = activeTextEditor
                  THEN decorateManifestFile(YamlStore, activeTextEditor, text,
                                            validateFn = "compiled")
                  ELSE YamlStore)
    /\ UNCHANGED <<activated, workspaceFolders, files, validateFn,
                   activeTextEditor>>
    /\ UNCHANGED providerVars
    /\ UNCHANGED modelineVars
    /\ UNCHANGED passVars

\* onDidSaveTextDocument
SaveTextDocument(doc) ==
    /\ activated
    /\ CommitYaml(IF isManifestFile(doc)
                  THEN validateYamlDocument(YamlStore, doc, textOf[doc],
                                            validateFn = "compiled")
                  ELSE YamlStore)
    /\ UNCHANGED <<activated, workspaceFolders, files, textOf, validateFn,
                   activeTextEditor>>
    /\ UNCHANGED providerVars
    /\ UNCHANGED modelineVars
    /\ UNCHANGED passVars

NextYaml ==
    \/ \E loaded \in BOOLEAN : YamlActivate(loaded)
    \/ \E root \in {RootP} : YamlFolderAdded(root)
    \/ \E root \in {RootP} : YamlFolderRemoved(root)
    \/ \E editor \in {<<>>} \cup Docs : ChangeActiveTextEditor(editor)
    \/ \E text \in Texts : ChangeTextDocument(text)
    \/ \E doc \in Docs : SaveTextDocument(doc)

SpecYaml == InitYaml /\ [][NextYaml]_vars

\* --------------------------------------- the extension with the modeline

\* What a handler of this extension works on.
ModelineStore ==
    [difyDirectoryPaths |-> difyDirectoryPaths,
     modelines |-> modelines,
     log |-> <<>>]

\* A registerSchema that does not look for the modeline in the content.
registerSchemaAlways(M, manifestPath, found) ==
    IF ~found THEN M
    ELSE IF ~existsSync(manifestPath) THEN M
    ELSE emit([M EXCEPT !.modelines = @ \cup {manifestPath}],
              Ev("write", manifestPath))

\* registerSchema(manifestPath); found is FALSE when getExtension knows no
\* extension of the name, and the function returns at once.
registerSchema(M, manifestPath, found) ==
    IF ~found THEN M
    ELSE IF ~existsSync(manifestPath) THEN M
    ELSE IF manifestPath \in M.modelines THEN M
    ELSE LET M1 == emit([M EXCEPT !.modelines = @ \cup {manifestPath}],
                        Ev("write", manifestPath))
         IN IF manifestPath \in visibleTextEditors
            THEN emit(M1, Ev("reload", manifestPath))
            ELSE M1

\* checkDifyDirectory(folder) of this extension.
checkDifyDirectoryModeline(M, workspaceRoot, found) ==
    LET M0 == emit(M, [e |-> "check", a |-> workspaceRoot,
                       pre |-> workspaceRoot \in M.difyDirectoryPaths,
                       all |-> markersPresent(workspaceRoot)])
        M1 == IF allFilesExist(workspaceRoot)
              THEN registerSchema(
                      [emit(M0, Ev("note", workspaceRoot))
                         EXCEPT !.difyDirectoryPaths = @ \cup {workspaceRoot}],
                      joinPath(workspaceRoot, ManifestName), found)
              ELSE [M0 EXCEPT !.difyDirectoryPaths = @ \ {workspaceRoot}]
    IN emit(M1, Ev("return", workspaceRoot))

\* handleDocumentOpen(document)
handleDocumentOpen(M, doc, found) ==
    IF basename(doc) # <<ManifestName>> THEN M
    ELSE IF /\ existsSync(joinPath(dirname(doc), ".difyignore"))
            /\ existsSync(joinPath(dirname(doc), "main.py"))
    THEN registerSchema(M, doc, found)
    ELSE M

RECURSIVE checkAllModeline(_, _, _, _)
checkAllModeline(M, folders, i, found) ==
    IF i > Len(folders) THEN M
    ELSE checkAllModeline(checkDifyDirectoryModeline(M, folders[i], found),
                          folders, i + 1, found)

RECURSIVE openAll(_, _, _)
openAll(M, i, found) ==
    IF i > Len(EditorOrder) THEN M
    ELSE openAll(IF EditorOrder[i] \in visibleTextEditors
                 THEN handleDocumentOpen(M, EditorOrder[i], found) ELSE M,
                 i + 1, found)

InitModeline ==
    /\ activated = FALSE
    /\ workspaceFolders \in {<<>>, <<RootP>>}
    /\ files \in SUBSET MarkerFiles
    /\ textOf = [d \in Docs |-> TextApp]
    /\ visibleTextEditors \in SUBSET {DocP}
    /\ confirmedDifyDirs = {}
    /\ difyDirectories = {}
    /\ diagnosticCollection = [d \in Docs |-> NoEntry]
    /\ published = [d \in Docs |-> NoPass]
    /\ lastCheck = [r \in Roots |-> "none"]
    /\ log = <<>>
    /\ validateFn = "null"
    /\ activeTextEditor = <<>>
    /\ yamlDiagnostics = [d \in Docs |-> NoEntry]
    /\ yamlPublished = [d \in Docs |-> NoYamlPass]
    /\ difyDirectoryPaths = {}
    /\ modelines = {}
    /\ validateErrors = [m \in ValidatorModules |-> <<>>]
    /\ lastPass = NoRun
    /\ earlierPass = NoRun
    /\ lastWalk = NoWalk

CommitModeline(M) ==
    /\ difyDirectoryPaths' = M.difyDirectoryPaths
    /\ modelines' = M.modelines
    /\ log' = M.log

\* activate(context): the check of every workspace folder, then
\* handleDocumentOpen on the open documents.
ModelineActivate(found) ==
    /\ ~activated
    /\ activated' = TRUE
    /\ CommitModeline(openAll(checkAllModeline(ModelineStore, workspaceFolders,
                                               1, found),
                              1, found))
    /\ UNCHANGED <<workspaceFolders, files, textOf, visibleTextEditors>>
    /\ UNCHANGED <<providerVars, yamlVars>>
    /\ UNCHANGED passVars

\* onDidChangeWorkspaceFolders with one folder added.
ModelineFolderAdded(root, found) ==
    /\ activated
    /\ root \notin folderSet
    /\ workspaceFolders' = Append(workspaceFolders, root)
    /\ CommitModeline(checkDifyDirectoryModeline(ModelineStore, root, found))
    /\ UNCHANGED <<activated, files, textOf>>
    /\ UNCHANGED <<providerVars, yamlVars>>
    /\ UNCHANGED passVars

\* onDidChangeWorkspaceFolders with one folder removed.
ModelineFolderRemoved(root) ==
    /\ activated
    /\ root \in folderSet
    /\ workspaceFolders' = SelectSeq(workspaceFolders, LAMBDA r : r # root)
    /\ CommitModeline(ModelineStore)
    /\ UNCHANGED <<activated, files, textOf>>
    /\ UNCHANGED <<providerVars, yamlVars>>
    /\ UNCHANGED passVars

\* onDidOpenTextDocument
ModelineOpenDocument(doc, found) ==
    /\ activated
    /\ doc \notin visibleTextEditors
    /\ visibleTextEditors' = visibleTextEditors \cup {doc}
    /\ CommitModeline(handleDocumentOpen(ModelineStore, doc, found))
    /\ UNCHANGED <<activated, workspaceFolders, files, textOf>>
    /\ UNCHANGED <<confirmedDifyDirs, difyDirectories, diagnosticCollection,
                   published, lastCheck, yamlVars>>
    /\ UNCHANGED passVars

\* The document is closed.
ModelineCloseDocument(doc) ==
    /\ activated
    /\ doc \in visibleTextEditors
    /\ visibleTextEditors' = visibleTextEditors \ {doc}
    /\ CommitModeline(ModelineStore)
    /\ UNCHANGED <<activated, workspaceFolders, files, textOf>>
    /\ UNCHANGED <<confirmedDifyDirs, difyDirectories, diagnosticCollection,
                   published, lastCheck, yamlVars>>
    /\ UNCHANGED passVars

\* A marker file appears on disk, a manifest without the modeline.
ModelineCreateFile(f) ==
    /\ activated
    /\ f \notin files
    /\ files' = files \cup {f}
    /\ CommitModeline(ModelineStore)
    /\ UNCHANGED <<activated, workspaceFolders, textOf>>
    /\ UNCHANGED <<providerVars, yamlVars>>
    /\ UNCHANGED passVars

\* A marker file disappears from disk.
ModelineDeleteFile(f) ==
    /\ activated
    /\ f \in files
    /\ files' = files \ {f}
    /\ CommitModeline([ModelineStore EXCEPT !.modelines = @ \ {f}])
    /\ UNCHANGED <<activated, workspaceFolders, textOf>>
    /\ UNCHANGED <<providerVars, yamlVars>>
    /\ UNCHANGED passVars

NextModeline ==
    \/ \E found \in BOOLEAN : ModelineActivate(found)
    \/ \E found \in BOOLEAN : ModelineFolderAdded(RootP, found)
    \/ ModelineFolderRemoved(RootP)
    \/ \E found \in BOOLEAN : ModelineOpenDocument(DocP, found)
    \/ ModelineCloseDocument(DocP)
    \/ \E f \in MarkerFiles : ModelineCreateFile(f)
    \/ \E f \in MarkerFiles : ModelineDeleteFile(f)

SpecModeline == InitModeline /\ [][NextModeline]_vars

\* ---------------------------------------------- the passes by themselves

\* How many passes one run of the model follows.
MaxRuns == 3

\* The entry points and their modes: validateManifest, and
\* validateYamlDocument with validate compiled or null.
PassKinds == {"manifest", "compiled", "null"}

\* The pass of this kind over this text: its diagnostics and how often it
\* called validate.
passOfKind(text, kind) ==
    IF kind = "manifest" THEN passOf[text]
    ELSE IF kind = "compiled" THEN yamlPassCompiled[text]
    ELSE yamlPassNull[text]

\* validate.errors after a pass: a call of validate assigns it, null when
\* the value is valid; a pass that does not reach the call leaves it.
errorsAfter(errors, text, kind, calls) ==
    IF calls = 0 THEN errors
    ELSE [errors EXCEPT ![IF kind = "manifest" THEN "decorationProvider"
                          ELSE "yamlValidator"] = errorsOf[text]]

InitPass ==
    /\ activated = TRUE
    /\ workspaceFolders = <<RootP>>
    /\ files = MarkerFiles
    /\ textOf = [d \in Docs |-> TextApp]
    /\ visibleTextEditors = {}
    /\ confirmedDifyDirs = {}
    /\ difyDirectories = {}
    /\ diagnosticCollection = [d \in Docs |-> NoEntry]
    /\ published = [d \in Docs |-> NoPass]
    /\ lastCheck = [r \in Roots |-> "none"]
    /\ log = <<>>
    /\ validateFn = "compiled"
    /\ activeTextEditor = <<>>
    /\ yamlDiagnostics = [d \in Docs |-> NoEntry]
    /\ yamlPublished = [d \in Docs |-> NoYamlPass]
    /\ difyDirectoryPaths = {}
    /\ modelines = {}
    /\ validateErrors = [m \in ValidatorModules |-> <<>>]
    /\ lastPass = NoRun
    /\ earlierPass = NoRun
    /\ lastWalk = NoWalk

\* One pass over a text, from document.getText() to the list handed to
\* the sink.
RunPass(text, kind) ==
    /\ lastPass.n < MaxRuns
    /\ LET ran(pass) ==
               /\ lastPass' = [text |-> text, kind |-> kind,
                               out |-> pass.diagnostics, n |-> lastPass.n + 1]
               /\ validateErrors' =
                      errorsAfter(validateErrors, text, kind, pass.calls)
       IN ran(passOfKind(text, kind))
    /\ UNCHANGED <<earlierPass, lastWalk>>
    /\ UNCHANGED <<activated, workspaceFolders, files, textOf, log>>
    /\ UNCHANGED <<providerVars, yamlVars, modelineVars>>

\* The pass run last is kept for comparison with a later one.
KeepPass ==
    /\ lastPass # NoRun
    /\ earlierPass' = lastPass
    /\ UNCHANGED <<validateErrors, lastPass, lastWalk>>
    /\ UNCHANGED <<activated, workspaceFolders, files, textOf, log>>
    /\ UNCHANGED <<providerVars, yamlVars, modelineVars>>

NextPass ==
    \/ \E text \in Texts, kind \in PassKinds : RunPass(text, kind)
    \/ KeepPass

SpecPass == InitPass /\ [][NextPass]_vars

\* --------------------------------------------- getRangeForPath by itself

\* A manifest with keys the schema does not name: runner under resource,
\* and runner and language at the top level after meta.  meta.runner has
\* no entrypoint and language: java.
TextShadow ==
    joinLines(<<KV(0, "version", "0.0.1"),
                KV(0, "type", "plugin"),
                KV(0, "author", "a"),
                KV(0, "name", "n"),
                K(0, "label"),
                KV(2, "en_US", "x"),
                K(0, "description"),
                KV(2, "en_US", "x"),
                KV(0, "icon", "icon.svg"),
                K(0, "resource"),
                KV(2, "memory", "1048576"),
                KV(2, "runner", "1"),
                K(0, "meta"),
                KV(2, "version", "0.0.1"),
                K(2, "arch"),
                Item(4, "amd64"),
                K(2, "runner"),
                KV(4, "language", "java"),
                KV(4, "version", "py3"),
                KV(0, "runner", "0"),
                KV(0, "language", "x")>>)

\* A manifest whose meta.arch has an item that is no architecture, and a
\* key arch at the top level after meta.
TextArch ==
    joinLines(<<KV(0, "version", "0.0.1"),
                KV(0, "type", "plugin"),
                K(0, "meta"),
                KV(2, "version", "0.0.1"),
                K(2, "arch"),
                Item(4, "x86"),
                KV(0, "arch", "1")>>)

\* A text with a line that begins with two letters s, a dash and a
\* letter s: the one kind of line the pattern of the index branch matches.
TextLetters ==
    joinLines(<<K(0, "arch"),
                KV(0, "x", "0"),
                <<"s", "s", "-", "s">>,
                KV(0, "x", "1")>>)

\* A list at the top level, its items two columns deeper than its key.
TextList ==
    joinLines(<<KV(0, "type", "plugin"),
                K(0, "tags"),
                Item(2, "a"),
                Item(2, "b")>>)

RangeTexts == Texts \cup {TextShadow, TextArch, TextLetters, TextList}

\* validate.errors for each of these texts that parses.
failuresOf ==
    [t \in RangeTexts |->
        IF t # TextLetters /\ yamlParse(t).ok THEN validate(yamlParse(t).v)
        ELSE <<>>]

\* Paths that are given to getRangeForPath directly.
FreePaths ==
    {<<>>, <<Sep, "type">>, <<Sep, "meta">>, <<Sep, "meta", Sep, "version">>,
     <<Sep, "arch", Sep, "0">>, <<Sep, "arch", Sep, "1">>,
     <<Sep, "arch", Sep, "0", Sep, "x">>, <<Sep, "meta", Sep, "arch", Sep, "0">>,
     <<Sep, "tags", Sep, "1">>, <<Sep, "meta", Sep, "runner">>}

\* One call of getRangeForPath.
walkOf(docText, jsonPath, keyword) ==
    [docText |-> docText, jsonPath |-> jsonPath, keyword |-> keyword,
     out |-> getRangeForPath(docText, jsonPath),
     scopes |-> scopeWalk(docText, pathSegments(jsonPath), 1, docText, -1),
     n |-> 1]

\* getRangeForPath(text, error.instancePath) for a failure of the text.
Resolve(text, i) ==
    /\ i <= Len(failuresOf[text])
    /\ lastWalk' = walkOf(text, failuresOf[text][i].instancePath,
                          failuresOf[text][i].keyword)
    /\ UNCHANGED <<validateErrors, lastPass, earlierPass>>
    /\ UNCHANGED <<activated, workspaceFolders, files, textOf, log>>
    /\ UNCHANGED <<providerVars, yamlVars, modelineVars>>

\* getRangeForPath(text, path) for a path given directly.
ResolvePath(text, path) ==
    /\ lastWalk' = walkOf(text, path, "none")
    /\ UNCHANGED <<validateErrors, lastPass, earlierPass>>
    /\ UNCHANGED <<activated, workspaceFolders, files, textOf, log>>
    /\ UNCHANGED <<providerVars, yamlVars, modelineVars>>

\* The largest number of failures of a text of the catalogue.
MaxFailures == 8

NextRange ==
    \/ \E text \in RangeTexts, i \in 1..MaxFailures : Resolve(text, i)
    \/ \E text \in RangeTexts, path \in FreePaths : ResolvePath(text, path)

SpecRange == InitPass /\ [][NextRange]_vars

\* ------------------------------------------------------ reading the log

\* The calls of checkDifyDirectory in the last handler run, by the
\* position of their "check" event.
checksOf == {i \in 1..Len(log) : log[i].e = "check"}

\* The position of the "return" event of the check that began at i.
returnOf(i) == minOf({j \in (i + 1)..Len(log) : log[j].e = "return"})

\* How many events e about a the check that began at i emitted.
countIn(i, e, a) ==
    Cardinality({j \in (i + 1)..(returnOf(i) - 1) :
                   log[j].e = e /\ log[j].a = a})

\* ------------------------------------------------------------- the claims

\* C1: a check of a root that is not confirmed and has every marker file
\* on disk confirms the root and emits exactly one added event (one
\* addDifyDirectory call) and exactly one notification, and no removed
\* event.
C1_Promotion ==
    \A i \in checksOf :
        (~log[i].pre /\ log[i].all) =>
            /\ log[i].a \in confirmedDifyDirs
            /\ log[i].a \in difyDirectories
            /\ countIn(i, "add", log[i].a) = 1
            /\ countIn(i, "note", log[i].a) = 1
            /\ countIn(i, "remove", log[i].a) = 0

C1_Witness ==
    \E i \in checksOf :
        /\ ~log[i].pre /\ log[i].all
        /\ log[i].a \in confirmedDifyDirs
        /\ countIn(i, "note", log[i].a) = 1

\* C2: a check of a confirmed root with a marker file missing, whichever
\* of the three it is, leaves the root unconfirmed and emits exactly one
\* removed event (one removeDifyDirectory call), no added event and no
\* notification.
C2_Demotion ==
    \A i \in checksOf :
        (log[i].pre /\ ~log[i].all) =>
            /\ log[i].a \notin confirmedDifyDirs
            /\ log[i].a \notin difyDirectories
            /\ countIn(i, "remove", log[i].a) = 1
            /\ countIn(i, "add", log[i].a) = 0
            /\ countIn(i, "note", log[i].a) = 0

\* The root is demoted with main.py, the last file looked for, as the
\* only one missing.
C2_Witness ==
    \E i \in checksOf :
        /\ log[i].pre /\ ~log[i].all
        /\ log[i].a = uriString(RootP)
        /\ files = MarkerFiles \ {joinPath(RootP, "main.py")}
        /\ uriString(RootP) \notin confirmedDifyDirs

\* C3: a check that meets the root as it was left (known with every
\* marker there, or not known with one missing) emits no added event, no
\* removed event and no notification.
C3_NoRedundantEvents ==
    \A i \in checksOf :
        (log[i].pre <=> log[i].all) =>
            /\ countIn(i, "add", log[i].a) = 0
            /\ countIn(i, "remove", log[i].a) = 0
            /\ countIn(i, "note", log[i].a) = 0

\* The checkDifyDirectory that keeps confirmedDifyDirs does nothing at all
\* in such a check, and leaves the root as it was.
ConfirmedCheckIsQuiet ==
    \A i \in checksOf :
        (log[i].pre <=> log[i].all) =>
            /\ returnOf(i) = i + 1
            /\ (log[i].a \in confirmedDifyDirs <=> log[i].pre)

\* C4 as stated: a root is confirmed exactly when its most recent check
\* found every marker file.
C4_Original ==
    \A r \in Roots :
        uriString(r) \in confirmedDifyDirs <=> lastCheck[r] = "all"

\* C4: a root is confirmed exactly when its most recent check found every
\* marker file and its folder has not left the workspace since.
C4_RecognizedIffLastCheck ==
    \A r \in Roots :
        uriString(r) \in confirmedDifyDirs
            <=> (lastCheck[r] = "all" /\ r \in folderSet)

\* The folder of a confirmed root has been removed from the workspace.
C4_Witness ==
    /\ lastCheck[RootP] = "all"
    /\ RootP \notin folderSet
    /\ uriString(RootP) \notin confirmedDifyDirs
    /\ \E j \in 1..Len(log) :
          log[j].e = "remove" /\ log[j].a = uriString(RootP)

\* C5: once a removed event for a root has been emitted, the sink holds
\* no diagnostics for a manifest that was validated on behalf of that
\* root, and the provider no longer decorates for the root.
C5_RemovedLeavesNothing ==
    \A j \in 1..Len(log) :
        log[j].e = "remove" =>
            /\ log[j].a \notin difyDirectories
            /\ \A d \in Docs :
                  ~ /\ diagnosticCollection[d].has
                    /\ diagnosticCollection[d].list # <<>>
                    /\ uriString(published[d].folder) = log[j].a

\* C6: a validation pass runs on a manifest only when the directory that
\* directly contains it is a confirmed root.
C6_Gating ==
    \A j \in 1..Len(log) : log[j].e = "pass" => log[j].pre

\* C7 as stated: the one diagnostic of a pass over a text that fails to
\* parse reads "YAML parsing error: " and the parser's message.
C7_Original ==
    \A d \in Docs :
        (diagnosticCollection[d].has /\ ~parseOf[published[d].text].ok) =>
            /\ Len(diagnosticCollection[d].list) = 1
            /\ diagnosticCollection[d].list[1].message =
                  "YAML parsing error: " \o parseOf[published[d].text].message

\* C7: a pass over a text that fails to parse publishes exactly one
\* diagnostic, of severity Error, whose message is "YAML Parsing Error: "
\* and the parser's message, and never invokes the schema validator.
C7_ParseFailurePrecedence ==
    /\ \A d \in Docs :
          (diagnosticCollection[d].has /\ ~parseOf[published[d].text].ok) =>
              /\ Len(diagnosticCollection[d].list) = 1
              /\ diagnosticCollection[d].list[1].severity = "Error"
              /\ diagnosticCollection[d].list[1].message =
                    "YAML Parsing Error: " \o parseOf[published[d].text].message
    /\ \A j \in 1..Len(log) :
          log[j].e = "validate" => parseOf[textOf[log[j].a]].ok

\* A pass has just published the diagnostic of a text that does not parse.
C7_Witness ==
    /\ ~parseOf[textOf[DocP]].ok
    /\ \E j \in 1..Len(log) : log[j].e = "publish" /\ log[j].a = DocP
    /\ \A j \in 1..Len(log) : ~(log[j].e = "validate" /\ log[j].a = DocP)
    /\ Len(diagnosticCollection[DocP].list) = 1

\* The messages that report an empty document.
EmptyMessages ==
    {"YAML parsing error: Empty document",
     "YAML parsing error: Empty YAML document",
     "YAML Parsing Error: Empty document",
     "YAML Parsing Error: Empty YAML document"}

\* C8: a pass of validateYamlDocument over a text that parses to null
\* publishes exactly one Error diagnostic, at the start of the document,
\* that reports an empty document, and does not invoke the schema
\* validator; no pass over a text that parses to anything else reports an
\* empty document.
C8_EmptyDocument ==
    /\ \A d \in Docs :
          (yamlDiagnostics[d].has /\ parseOf[yamlPublished[d].text].ok) =>
              IF parseOf[yamlPublished[d].text].v = Null
              THEN /\ Len(yamlDiagnostics[d].list) = 1
                   /\ yamlDiagnostics[d].list[1].severity = "Error"
                   /\ yamlDiagnostics[d].list[1].range = Range(0, 0, 0, 0)
                   /\ yamlDiagnostics[d].list[1].message \in EmptyMessages
              ELSE \A i \in 1..Len(yamlDiagnostics[d].list) :
                      yamlDiagnostics[d].list[i].message \notin EmptyMessages
    /\ \A j \in 1..Len(log) :
          log[j].e = "validate" =>
              /\ parseOf[textOf[log[j].a]].ok
              /\ parseOf[textOf[log[j].a]].v # Null

\* The same of validateManifest, which has no test for an empty document.
ManifestEmptyDocument ==
    /\ \A d \in Docs :
          (diagnosticCollection[d].has /\ parseOf[published[d].text].ok) =>
              IF parseOf[published[d].text].v = Null
              THEN /\ Len(diagnosticCollection[d].list) = 1
                   /\ diagnosticCollection[d].list[1].severity = "Error"
                   /\ diagnosticCollection[d].list[1].range = Range(0, 0, 0, 0)
                   /\ diagnosticCollection[d].list[1].message \in EmptyMessages
              ELSE \A i \in 1..Len(diagnosticCollection[d].list) :
                      diagnosticCollection[d].list[i].message \notin EmptyMessages
    /\ \A j \in 1..Len(log) :
          log[j].e = "validate" =>
              /\ parseOf[textOf[log[j].a]].ok
              /\ parseOf[textOf[log[j].a]].v # Null

\* C9: the list published by a pass over a text that parses has exactly
\* one diagnostic for each failure of the validator, of severity Error,
\* in the validator's order.
C9_OnePerFailure ==
    \A d \in Docs :
        (diagnosticCollection[d].has /\ parseOf[published[d].text].ok) =>
            LET errors == errorsOf[published[d].text]
                list == diagnosticCollection[d].list
            IN /\ Len(list) = Len(errors)
               /\ \A i \in 1..Len(list) :
                     /\ list[i].severity = "Error"
                     /\ list[i].message =
                           errors[i].message \o " ("
                           \o strOf(errors[i].instancePath) \o ")"

\* C10: the list the sink holds for a document is exactly the list of
\* the most recent pass on it.
C10_SinkHoldsLastPass ==
    \A d \in Docs :
        /\ diagnosticCollection[d].has =>
              diagnosticCollection[d].list = passOf[published[d].text].diagnostics
        /\ ~diagnosticCollection[d].has => diagnosticCollection[d].list = <<>>

\* A pass has just replaced a list that was different.
C10_Witness ==
    \E j \in 1..Len(log) :
        /\ log[j].e = "publish" /\ log[j].pre /\ log[j].all
        /\ diagnosticCollection[log[j].a].list # <<>>
        /\ diagnosticCollection[log[j].a].list =
              passOf[textOf[log[j].a]].diagnostics

wholeDiagnostic(diagnostic) ==
    /\ diagnostic.severity = "Error"
    /\ diagnostic.message # ""
    /\ diagnostic.range.sl >= 0 /\ diagnostic.range.sc >= 0
    /\ \/ diagnostic.range.sl < diagnostic.range.el
       \/ /\ diagnostic.range.sl = diagnostic.range.el
          /\ diagnostic.range.sc <= diagnostic.range.ec

C13_RangeFallback ==
    \A d \in Docs :
        (diagnosticCollection[d].has /\ parseOf[published[d].text].ok) =>
            \A i \in 1..Len(errorsOf[published[d].text]) :
                /\ getRangeForPath(published[d].text,
                       errorsOf[published[d].text][i].instancePath).ok
                /\ getRangeForPath(published[d].text,
                       errorsOf[published[d].text][i].instancePath).fallback
                     => /\ i <= Len(diagnosticCollection[d].list)
                        /\ diagnosticCollection[d].list[i].range
                              = Range(0, 0, 0, 0)

\* The part of C13 that getRangeForPath keeps: a walk that does not find
\* a segment stops there, with a range of no width at the start of a line.
FallbackIsEmptyRange ==
    \A d \in Docs :
        (diagnosticCollection[d].has /\ parseOf[published[d].text].ok) =>
            \A i \in 1..Len(errorsOf[published[d].text]) :
                getRangeForPath(published[d].text,
                    errorsOf[published[d].text][i].instancePath).fallback
                  => /\ getRangeForPath(published[d].text,
                           errorsOf[published[d].text][i].instancePath).range.sc = 0
                     /\ getRangeForPath(published[d].text,
                           errorsOf[published[d].text][i].instancePath).range.ec = 0

\* The table of message templates, by failure kind; path is the failure's
\* path without its leading separator, its segments joined by dots.
templateOf(error) ==
    LET path == IF error.instancePath = <<>> THEN ""
                ELSE joinDots(pathSegments(error.instancePath))
    IN IF error.keyword = "required"
       THEN "Missing required property: '" \o error.param \o "'"
       ELSE IF error.keyword = "type"
       THEN "'" \o path \o "' should be " \o error.param
       ELSE IF error.keyword = "enum"
       THEN "'" \o path \o "' should be one of: "
            \o joinComma(error.allowedValues)
       ELSE IF error.keyword = "pattern"
       THEN "'" \o path \o "' should match pattern: " \o error.param
       ELSE IF error.keyword = "format"
       THEN "'" \o path \o "' should be a valid " \o error.param
       ELSE IF error.keyword = "minimum"
       THEN "'" \o path \o "' should be >= " \o ToString(error.limit)
       ELSE IF error.keyword = "maximum"
       THEN "'" \o path \o "' should be <= " \o ToString(error.limit)
       ELSE IF error.keyword = "minProperties"
       THEN "'" \o path \o "' should have at least "
            \o ToString(error.limit) \o " properties"
       ELSE IF error.message # "" THEN error.message
       ELSE "Validation error in " \o (IF path = "" THEN "manifest" ELSE path)

\* C14: the message of the diagnostic that validateManifest publishes for
\* a failure is the template of the failure's kind.
C14_Templates ==
    \A d \in Docs :
        (/\ diagnosticCollection[d].has
         /\ parseOf[published[d].text].ok
         /\ Len(diagnosticCollection[d].list)
               = Len(errorsOf[published[d].text])) =>
            \A i \in 1..Len(diagnosticCollection[d].list) :
                diagnosticCollection[d].list[i].message
                    = templateOf(errorsOf[published[d].text][i])

\* The same of validateYamlDocument with the compiled schema, whose
\* formatErrorMessage follows the table.
YamlTemplates ==
    \A d \in Docs :
        (/\ yamlDiagnostics[d].has
         /\ yamlPublished[d].compiled
         /\ parseOf[yamlPublished[d].text].ok
         /\ ~falsy(parseOf[yamlPublished[d].text].v)) =>
            /\ Len(yamlDiagnostics[d].list)
                  = Len(errorsOf[yamlPublished[d].text])
            /\ \A i \in 1..Len(yamlDiagnostics[d].list) :
                  yamlDiagnostics[d].list[i].message
                      = templateOf(errorsOf[yamlPublished[d].text][i])

\* C15: a pass over a text whose parsed value satisfies the schema hands
\* over the empty list, whether it is the pass of validateManifest or the
\* pass of validateYamlDocument, with the compiled schema or without it.
C15_ValidDocument ==
    (/\ lastPass.n > 0
     /\ parseOf[lastPass.text].ok
     /\ errorsOf[lastPass.text] = <<>>)
        => lastPass.out = <<>>

\* The part of C15 that holds: the passes that call the compiled schema.
ValidDocumentCompiled ==
    (/\ lastPass.n > 0
     /\ lastPass.kind # "null"
     /\ parseOf[lastPass.text].ok
     /\ errorsOf[lastPass.text] = <<>>)
        => lastPass.out = <<>>

\* C16: the list the sink holds for a document shown in an editor, in a
\* confirmed root, is the list of a pass over the text the document has
\* now.
C16_NoStaleDiagnostics ==
    \A d \in Docs :
        (/\ diagnosticCollection[d].has
         /\ d \in visibleTextEditors
         /\ uriString(dirname(d)) \in confirmedDifyDirs) =>
            /\ published[d].text = textOf[d]
            /\ diagnosticCollection[d].list = passOf[textOf[d]].diagnostics

\* What the save listener does keep: right after a pass on a document the
\* sink holds the list of the text the document has.
FreshAfterPass ==
    \A j \in 1..Len(log) :
        log[j].e = "publish" =>
            /\ published[log[j].a].text = textOf[log[j].a]
            /\ diagnosticCollection[log[j].a].list
                  = passOf[textOf[log[j].a]].diagnostics

\* The same of the extension on yamlValidator.ts, whose change listener
\* runs a pass only when the document is the one of the active editor.
YamlNoStaleDiagnostics ==
    \A d \in Docs :
        yamlDiagnostics[d].has => yamlPublished[d].text = textOf[d]

\* The messages of the diagnostics the catch block of validateManifest
\* makes for an error that is no parse error.
abortMessages ==
    {"Validation Error: " \o SyntaxError(segment).error :
        segment \in {s \in {"c++", "type", "runner"} : regExpThrows(s)}}
    \cup {"Unknown validation error."}

\* C17: the list published for a document whose text parses is either the
\* whole list of one pass, one diagnostic for each failure, or the one
\* diagnostic of an aborted pass: never some of the diagnostics of a pass,
\* and never diagnostics of failures together with the diagnostic of an
\* abort.
C17_NoPartialPublication ==
    \A d \in Docs :
        (diagnosticCollection[d].has /\ parseOf[published[d].text].ok) =>
            IF \E i \in 1..Len(diagnosticCollection[d].list) :
                   diagnosticCollection[d].list[i].message \in abortMessages
            THEN Len(diagnosticCollection[d].list) = 1
            ELSE Len(diagnosticCollection[d].list)
                    = Len(errorsOf[published[d].text])

\* The part of C17 that holds: validateManifest has no await, a pass runs
\* from the read of the text to the publication with no other handler in
\* between, and what it publishes is the list of the text it read.
PassIsOneStep ==
    \A j \in 1..Len(log) :
        log[j].e = "pass" =>
            \E k \in (j + 1)..Len(log) :
                /\ log[k].e = "publish" /\ log[k].a = log[j].a
                /\ \A m \in (j + 1)..(k - 1) : log[m].e = "validate"
                /\ published[log[j].a].text = textOf[log[j].a]

\* C18: a confirmed root whose folder is in the workspace and that has a
\* marker file missing on disk is eventually no longer confirmed, unless
\* the file comes back.
C18_DemotionObserved ==
    (/\ uriString(RootP) \in confirmedDifyDirs
     /\ RootP \in folderSet
     /\ ~markersPresent(RootP))
        ~> (uriString(RootP) \notin confirmedDifyDirs \/ markersPresent(RootP))

\* What the extension does for a marker that disappears: nothing.  A step
\* that takes a file from disk leaves the confirmed roots, the provider
\* and the sink as they were.
DeleteFileIsUnseen ==
    [][files' # files =>
          UNCHANGED <<confirmedDifyDirs, difyDirectories, diagnosticCollection>>]_vars

\* C19: a check that confirms a root runs exactly one pass on the root's
\* manifest and publishes its list once when an editor shows the
\* manifest, and runs no pass and publishes nothing for it when no editor
\* does.
C19_AddedTriggersOnePass ==
    \A i \in checksOf :
        \A r \in Roots :
            (log[i].a = uriString(r) /\ ~log[i].pre /\ log[i].all) =>
                /\ countIn(i, "pass", joinPath(r, ManifestName))
                      = IF joinPath(r, ManifestName) \in visibleTextEditors
                        THEN 1 ELSE 0
                /\ countIn(i, "publish", joinPath(r, ManifestName))
                      = IF joinPath(r, ManifestName) \in visibleTextEditors
                        THEN 1 ELSE 0
                /\ \A d \in Docs \ {joinPath(r, ManifestName)} :
                      countIn(i, "pass", d) = 0

\* A folder is added whose manifest an editor shows: the check confirms
\* the root and runs its one pass.
C19_Witness ==
    \E i \in checksOf :
        /\ log[i].a = uriString(RootP) /\ ~log[i].pre /\ log[i].all
        /\ activated
        /\ DocP \in visibleTextEditors
        /\ countIn(i, "pass", DocP) = 1
        /\ countIn(i, "publish", DocP) = 1
        /\ diagnosticCollection[DocP].has

\* The other case of C19: the root is confirmed while no editor shows its
\* manifest, and the sink has nothing for it.
AddedWithoutEditor ==
    \E i \in checksOf :
        /\ log[i].a = uriString(RootP) /\ ~log[i].pre /\ log[i].all
        /\ DocP \notin visibleTextEditors
        /\ countIn(i, "pass", DocP) = 0
        /\ ~diagnosticCollection[DocP].has

\* C20: the confirmed roots and the provider's directories change only in
\* a step that calls checkDifyDirectory or takes a folder from the
\* workspace: the document listeners, the passes they run and the
\* provider's queries leave both sets as they are.
C20_OnlyChecksChangeState ==
    [][(\/ confirmedDifyDirs' # confirmedDifyDirs
        \/ difyDirectories' # difyDirectories)
          => \/ \E j \in 1..Len(log') : log'[j].e = "check"
             \/ \E i \in 1..Len(workspaceFolders) :
                   \A k \in 1..Len(workspaceFolders') :
                       workspaceFolders'[k] # workspaceFolders[i]]_vars

\* A document listener has run a pass on the manifest of a confirmed
\* root, with no check.
C20_Witness ==
    /\ \E j \in 1..Len(log) : log[j].e = "pass" /\ log[j].a = DocP
    /\ \A j \in 1..Len(log) : log[j].e # "check"
    /\ uriString(RootP) \in confirmedDifyDirs
    /\ uriString(RootP) \in difyDirectories

\* The provider has answered a query for the manifest of a confirmed root.
DecorationAnswered ==
    /\ \E j \in 1..Len(log) :
          log[j].e = "decorate" /\ log[j].a = DocP /\ log[j].pre
    /\ uriString(RootP) \in confirmedDifyDirs

\* The line (from 1, 0 for none) of the key that the segments from k on
\* name in the block under line from, whose key has indentation ind: the
\* keys of a block are its lines of the least indentation.
RECURSIVE keyLineOf(_, _, _, _, _)
keyLineOf(lines, segs, k, from, ind) ==
    LET inBlock(n) ==
            \A m \in (from + 1)..n : lines[m] = <<>> \/ indentOf(lines[m]) > ind
        isKeyLine(n) ==
            /\ inBlock(n)
            /\ Len(bodyOf(lines[n])) >= 2
            /\ bodyOf(lines[n])[1] = segs[k]
            /\ bodyOf(lines[n])[2] = ":"
            /\ indentOf(lines[n]) = indentOf(lines[from + 1])
        next(hits) ==
            IF hits = {} THEN 0
            ELSE IF k = Len(segs) THEN minOf(hits)
            ELSE keyLineOf(lines, segs, k + 1, minOf(hits),
                           indentOf(lines[minOf(hits)]))
    IN next({n \in (from + 1)..Len(lines) : isKeyLine(n)})

\* The range of the key token that a path of keys names in a text.
keyRangeOf(docText, jsonPath) ==
    LET at(lines, segs, n) ==
            Range(n - 1, indentOf(lines[n]),
                  n - 1, indentOf(lines[n]) + Len(segs[Len(segs)]))
    IN at(splitLines(docText), pathSegments(jsonPath),
          keyLineOf(splitLines(docText), pathSegments(jsonPath), 1, 0, -1))

\* The path is one of keys only, and the text has the key it names.
namesKey(docText, jsonPath) ==
    /\ jsonPath # <<>>
    /\ \A k \in 1..Len(pathSegments(jsonPath)) :
          ~isIndex(pathSegments(jsonPath)[k])
    /\ keyLineOf(splitLines(docText), pathSegments(jsonPath), 1, 0, -1) # 0

\* C21: for a required failure getRangeForPath returns (0,0)-(0,0) when
\* the path is empty, and otherwise the range of the key the path names,
\* the parent of the missing property, where that key is in the text.
C21_RequiredParentRange ==
    (lastWalk.n > 0 /\ lastWalk.keyword = "required") =>
        /\ lastWalk.out.ok
        /\ lastWalk.jsonPath = <<>> => lastWalk.out.range = Range(0, 0, 0, 0)
        /\ namesKey(lastWalk.docText, lastWalk.jsonPath) =>
              lastWalk.out.range
                  = keyRangeOf(lastWalk.docText, lastWalk.jsonPath)

\* The part of C21 that holds: a missing top-level property, and a
\* missing property of a top-level key.
RequiredAtTopLevel ==
    (/\ lastWalk.n > 0 /\ lastWalk.keyword = "required"
     /\ lastWalk.docText \in Texts
     /\ Len(pathSegments(lastWalk.jsonPath)) <= 1) =>
        /\ lastWalk.out.ok
        /\ lastWalk.jsonPath = <<>> => lastWalk.out.range = Range(0, 0, 0, 0)
        /\ namesKey(lastWalk.docText, lastWalk.jsonPath) =>
              lastWalk.out.range
                  = keyRangeOf(lastWalk.docText, lastWalk.jsonPath)

\* C22: when the path is one of keys and the text has the key it names,
\* getRangeForPath returns the range of exactly that key token: on its
\* line, from its indentation, as long as the key.
C22_KeyTokenRange ==
    (lastWalk.n > 0 /\ namesKey(lastWalk.docText, lastWalk.jsonPath)) =>
        /\ lastWalk.out.ok
        /\ ~lastWalk.out.fallback
        /\ lastWalk.out.range = keyRangeOf(lastWalk.docText, lastWalk.jsonPath)

\* The part of C22 that holds: a key at the top level of a text of the
\* catalogue.
TopLevelKeyTokenRange ==
    (/\ lastWalk.n > 0
     /\ lastWalk.docText \in Texts
     /\ Len(pathSegments(lastWalk.jsonPath)) = 1
     /\ namesKey(lastWalk.docText, lastWalk.jsonPath)) =>
        /\ lastWalk.out.ok
        /\ lastWalk.out.range = keyRangeOf(lastWalk.docText, lastWalk.jsonPath)

\* C23: in a walk, the search area of a segment never begins before the
\* one of the segment before it, and a match is taken where it was found
\* in the search area, after the end of the match before it.
C23_ForwardOnly ==
    lastWalk.n > 0 =>
        \A k \in 1..Len(lastWalk.scopes) :
            /\ lastWalk.scopes[k].next >= lastWalk.scopes[k].scope
            /\ lastWalk.scopes[k].taken = lastWalk.scopes[k].found
            /\ lastWalk.scopes[k].taken > lastWalk.scopes[k].scope

\* The part of C23 that holds: regex.exec runs on searchArea, so the
\* match itself is found after the start of the search area.
MatchIsInSearchArea ==
    lastWalk.n > 0 =>
        \A k \in 1..Len(lastWalk.scopes) :
            lastWalk.scopes[k].found > lastWalk.scopes[k].scope

\* The lines (from 1) after line from (from 0) of a text that are
\* indented by exactly indentLevel spaces and begin with a dash and a
\* space.
listMarkers(lines, from, indentLevel) ==
    {n \in (from + 2)..Len(lines) :
        /\ indentOf(lines[n]) = indentLevel
        /\ Len(bodyOf(lines[n])) >= 2
        /\ bodyOf(lines[n])[1] = "-"
        /\ bodyOf(lines[n])[2] = SP}

\* The walk is one over keys that all matched and then one index.
endsInIndex(walk) ==
    /\ walk.n > 0
    /\ Len(pathSegments(walk.jsonPath)) >= 2
    /\ isIndex(pathSegments(walk.jsonPath)[Len(pathSegments(walk.jsonPath))])
    /\ Len(walk.scopes) = Len(pathSegments(walk.jsonPath)) - 1
    /\ \A k \in 1..Len(walk.scopes) :
          walk.scopes[k].segment = pathSegments(walk.jsonPath)[k]

\* C24: for a path that ends in the index n, getRangeForPath returns the
\* start of the n-th line (from 0), after the match of the key before it,
\* that is indented two spaces more than that key and begins with "- ",
\* and the document start when there is no such line.
C24_ListMarker ==
    endsInIndex(lastWalk) =>
        LET expect(markers, n) ==
                IF Cardinality(markers) > n
                THEN \E m \in markers :
                        /\ Cardinality({m2 \in markers : m2 < m}) = n
                        /\ lastWalk.out.range = Range(m - 1, 0, m - 1, 0)
                ELSE lastWalk.out.range = Range(0, 0, 0, 0)
        IN /\ lastWalk.out.ok
           /\ expect(listMarkers(splitLines(lastWalk.docText),
                                 lineOfToken(lastWalk.docText,
                                     lastWalk.scopes[Len(lastWalk.scopes)].next),
                                 lastWalk.scopes[Len(lastWalk.scopes)].lead + 2),
                     parseInt(pathSegments(lastWalk.jsonPath)
                                 [Len(pathSegments(lastWalk.jsonPath))]))

\* What the index branch does: found or not, the walk ends on the line of
\* the key before the index, with a range of no width.
IndexStaysOnKeyLine ==
    endsInIndex(lastWalk) =>
        lastWalk.out.range
            = Range(lineOfToken(lastWalk.docText,
                                lastWalk.scopes[Len(lastWalk.scopes)].taken), 0,
                    lineOfToken(lastWalk.docText,
                                lastWalk.scopes[Len(lastWalk.scopes)].taken), 0)

\* -------------------------------------------- the catch blocks by themselves

\* The largest line number a caught message names; the longest text of the
\* catalogue has fewer lines.
MaxLineNumber == 24

\* The largest offset a YAMLParseError carries; the longest text of the
\* catalogue has fewer characters.
MaxOffset == 400

\* message.match(/line (\d+)/): <<>> for no match, <<n>> for the number.
LineMatches == {<<>>} \cup {<<n>> : n \in 0..MaxLineNumber}

\* error.pos of a YAMLParseError: undefined, one offset or two.
ErrorPositions ==
    {<<>>} \cup {<<a>> : a \in {0, 9, MaxOffset}}
           \cup {<<a, a + 1>> : a \in {0, 1, 9, 30, 90, MaxOffset}}

\* The YAMLParseError branch of validateManifest's catch block.
catchYAMLParseError(text, message, pos) ==
    LET position == IF pos # <<>> THEN positionAt(text, pos[1])
                    ELSE [line |-> 0, character |-> 0]
        endPosition == IF Len(pos) > 1 THEN positionAt(text, pos[2])
                       ELSE position
    IN <<Diagnostic(Range(position.line, position.character,
                          endPosition.line, endPosition.character),
                    "YAML Parsing Error: " \o message, "Error")>>

\* The catch block of validateYamlDocument runs on an error whose message
\* gives this match.
CatchParsingError(text, lineMatch) ==
    /\ lastPass' =
           [text |-> text, kind |-> "lineAt", n |-> 1, reported |-> lineMatch,
            thrown |-> lineAtThrows(text, lineMatch),
            out |-> IF lineAtThrows(text, lineMatch) THEN <<>>
                    ELSE catchParsingError(text, "Unexpected token", lineMatch)]
    /\ UNCHANGED <<validateErrors, earlierPass, lastWalk>>
    /\ UNCHANGED <<activated, workspaceFolders, files, textOf, log>>
    /\ UNCHANGED <<providerVars, yamlVars, modelineVars>>

\* The catch block of validateManifest runs on a YAMLParseError with this
\* pos.
CatchYAMLParseError(text, pos) ==
    /\ lastPass' =
           [text |-> text, kind |-> "positionAt", n |-> 1, reported |-> pos,
            thrown |-> FALSE,
            out |-> catchYAMLParseError(text, "Unexpected token", pos)]
    /\ UNCHANGED <<validateErrors, earlierPass, lastWalk>>
    /\ UNCHANGED <<activated, workspaceFolders, files, textOf, log>>
    /\ UNCHANGED <<providerVars, yamlVars, modelineVars>>

NextCatch ==
    \/ \E text \in RangeTexts, lineMatch \in LineMatches :
           CatchParsingError(text, lineMatch)
    \/ \E text \in RangeTexts, pos \in ErrorPositions :
           CatchYAMLParseError(text, pos)

SpecCatch == InitPass /\ [][NextCatch]_vars

\* C25: a parse failure whose message names a line gives one diagnostic on
\* a line index within [0, lineCount - 1], for every number named, 0 and
\* numbers beyond the end included; with no line named the range is the
\* document start.
C25_ClampedLine ==
    lastPass.kind = "lineAt" =>
        /\ ~lastPass.thrown
        /\ Len(lastPass.out) = 1
        /\ LET range == lastPass.out[1].range
               lineCount == Len(splitLines(lastPass.text))
           IN IF lastPass.reported = <<>> THEN range = Range(0, 0, 0, 0)
              ELSE /\ range.sl \in 0..(lineCount - 1)
                   /\ range.el = range.sl

\* What validateYamlDocument's catch block does give: for a number from 1
\* on, the whole line of that number, the last line for a number beyond
\* the end; for 0 it throws and builds no diagnostic.
ReportedLineClampedAbove ==
    lastPass.kind = "lineAt" =>
        LET lines == splitLines(lastPass.text)
            onLine(n) ==
                LET at == IF n - 1 < Len(lines) - 1 THEN n - 1
                          ELSE Len(lines) - 1
                IN /\ ~lastPass.thrown
                   /\ lastPass.out[1].range =
                          Range(at, 0, at, charLen(lines[at + 1]))
        IN IF lastPass.reported = <<>>
           THEN ~lastPass.thrown /\ lastPass.out[1].range = Range(0, 0, 0, 0)
           ELSE IF lastPass.reported[1] = 0
           THEN lastPass.thrown /\ lastPass.out = <<>>
           ELSE onLine(lastPass.reported[1])

\* validateManifest's branch never leaves the document: positionAt clamps
\* both offsets, and with no pos the range is the document start.
PositionIsClamped ==
    lastPass.kind = "positionAt" =>
        LET range == lastPass.out[1].range
            lineCount == Len(splitLines(lastPass.text))
        IN /\ Len(lastPass.out) = 1
           /\ range.sl \in 0..(lineCount - 1)
           /\ range.el \in 0..(lineCount - 1)
           /\ lastPass.reported = <<>> => range = Range(0, 0, 0, 0)

\* C26: when the schema could not be loaded at startup, activation does
\* not throw and the validator is inert: a pass publishes no schema
\* violation, so the list for a text that parses to a value is empty.
C26_InertValidator ==
    (activated /\ validateFn = "null") =>
        \A d \in Docs :
            ( /\ yamlDiagnostics[d].has
              /\ parseOf[yamlPublished[d].text].ok
              /\ ~falsy(parseOf[yamlPublished[d].text].v)) =>
                yamlDiagnostics[d].list = <<>>

\* What the pass does with validate null: it publishes what
\* fallbackValidation finds in the parsed value.
NullValidatorFallsBack ==
    (activated /\ validateFn = "null") =>
        \A d \in Docs :
            ( /\ yamlDiagnostics[d].has
              /\ parseOf[yamlPublished[d].text].ok
              /\ ~falsy(parseOf[yamlPublished[d].text].v)) =>
                /\ ~yamlPublished[d].compiled
                /\ yamlDiagnostics[d].list =
                       fallbackValidation(parseOf[yamlPublished[d].text].v,
                                          yamlPublished[d].text)

\* The required properties of the schema's top level that a parsed value
\* lacks, as positions in the schema's list.
missingRequired(v) ==
    {j \in 1..Len(manifestSchema.required) :
        ~hasKey(v, manifestSchema.required[j])}

\* A pass over a parsed mapping has one diagnostic for each failure, in
\* the failures' order; those of the top level's required properties are
\* as many as the properties that are missing, one for each, each with
\* the message "Missing required property: '<name>'".
requiredPerMissing(run) ==
    LET errors == errorsOf[run.text]
        v == parseOf[run.text].v
        level == {i \in 1..Len(errors) :
                     /\ errors[i].keyword = "required"
                     /\ errors[i].instancePath = <<>>}
    IN /\ Len(run.out) = Len(errors)
       /\ Cardinality(level) = Cardinality(missingRequired(v))
       /\ \A j \in 1..Len(manifestSchema.required) :
             Cardinality({i \in level :
                 run.out[i].message =
                     "Missing required property: '"
                     \o manifestSchema.required[j] \o "'"})
                 = IF j \in missingRequired(v) THEN 1 ELSE 0

\* C27: a pass over a parsed manifest that lacks k of the required
\* properties of one level yields exactly k Required diagnostics for the
\* level, one for each missing property and none for one that is present,
\* each with the message "Missing required property: '<name>'".
C27_RequiredPerMissing ==
    (/\ lastPass.n > 0
     /\ lastPass.kind \in PassKinds
     /\ parseOf[lastPass.text].ok
     /\ parseOf[lastPass.text].v.k = "object")
        => requiredPerMissing(lastPass)

\* The same of the pass of validateYamlDocument with the compiled schema,
\* whose formatErrorMessage writes that message.
RequiredPerMissingCompiled ==
    (/\ lastPass.n > 0
     /\ lastPass.kind = "compiled"
     /\ parseOf[lastPass.text].ok
     /\ parseOf[lastPass.text].v.k = "object")
        => requiredPerMissing(lastPass)

\* A pass over a manifest that lacks several required properties.
SeveralMissing ==
    /\ lastPass.kind = "compiled"
    /\ parseOf[lastPass.text].ok
    /\ parseOf[lastPass.text].v.k = "object"
    /\ Cardinality(missingRequired(parseOf[lastPass.text].v)) > 1

\* C28: after every operation the decoration provider's set of Dify
\* directories equals the extension's set of confirmed directories; no
\* root is in one set and missing from the other.
C28_ProviderMirrorsConfirmed == difyDirectories = confirmedDifyDirs

\* A handler has un-confirmed a root that the provider held, and the two
\* sets agree.
C28_Witness ==
    /\ \E j \in 1..Len(log) :
          /\ log[j].e = "remove"
          /\ \E k \in (j + 1)..Len(log) : log[k].e = "fire"
    /\ uriString(RootP) \notin confirmedDifyDirs
    /\ difyDirectories = confirmedDifyDirs

\* The added and removed events of a root in a handler's log, in order.
eventsOf(l, r) ==
    SelectSeq(l, LAMBDA ev : ev.e \in {"add", "remove"} /\ ev.a = uriString(r))

\* The times the provider fired its change event in a handler's log.
firesIn(l) == Len(SelectSeq(l, LAMBDA ev : ev.e = "fire"))

\* What one handler adds to the history of a root: its events alternate,
\* the first is added exactly when the root was not confirmed before, the
\* last is added exactly when the root is confirmed after, and with no
\* event the root stays as it was; the provider fires once for each event
\* and not otherwise.
alternates(before, after, l) ==
    /\ \A r \in Roots :
          LET evs == eventsOf(l, r)
          IN /\ \A k \in 1..(Len(evs) - 1) : evs[k].e # evs[k + 1].e
             /\ IF evs = <<>>
                THEN (uriString(r) \in after) <=> (uriString(r) \in before)
                ELSE /\ (evs[1].e = "add") <=> (uriString(r) \notin before)
                     /\ (evs[Len(evs)].e = "add") <=> (uriString(r) \in after)
    /\ firesIn(l) = Len(SelectSeq(l, LAMBDA ev : ev.e \in {"add", "remove"}))

\* C29: for each root the added and removed events alternate, starting
\* with added, over any sequence of checks and folder events, so added
\* minus removed is 0 or 1, and 1 exactly when the root is confirmed; the
\* provider fires a change event only when its set changes.  No root is
\* confirmed at the start, so it is enough that every handler continues
\* the alternation from the root's state before it to its state after it.
C29_EventsAlternate ==
    [][alternates(confirmedDifyDirs, confirmedDifyDirs', log')]_vars

\* A handler has emitted an added event for a root, the provider has
\* fired, and the root is confirmed.
C29_Witness ==
    /\ uriString(RootP) \in confirmedDifyDirs
    /\ \E j \in 1..Len(log) :
          /\ log[j].e = "add" /\ log[j].a = uriString(RootP)
          /\ \E k \in (j + 1)..Len(log) : log[k].e = "fire"

\* The positions of a handler's log where registerSchema wrote a file.
writesIn(l) == {j \in 1..Len(l) : l[j].e = "write"}

\* What one handler does to the files: it writes only a manifest.yaml
\* that exists, whose directory holds .difyignore and main.py, and whose
\* content had no modeline, each file once; a written file has the
\* modeline afterwards, and no other file changes.
guardedWrites(before, after, l) ==
    /\ \A j \in writesIn(l) :
          /\ basename(l[j].a) = <<ManifestName>>
          /\ existsSync(l[j].a)
          /\ existsSync(joinPath(dirname(l[j].a), ".difyignore"))
          /\ existsSync(joinPath(dirname(l[j].a), "main.py"))
          /\ l[j].a \notin before
          /\ \A k \in writesIn(l) : l[k].a = l[j].a => k = j
    /\ writesIn(l) # {} => after = before \cup {l[j].a : j \in writesIn(l)}

\* C30: over any number of registerSchema calls, from checks and from
\* opened documents in any order, a manifest's content is its original
\* content with at most one modeline before it: a call on a file that has
\* the modeline, or that does not exist, writes nothing, and a write
\* happens only for a manifest.yaml whose directory holds the other
\* marker files.
C30_ModelineGuarded ==
    [][guardedWrites(modelines, modelines', log')]_vars

\* A handler has written the modeline into the manifest of the root.
C30_Witness ==
    /\ \E j \in 1..Len(log) :
          log[j].e = "write" /\ log[j].a = joinPath(RootP, ManifestName)
    /\ joinPath(RootP, ManifestName) \in modelines

=============================================================================
